---- MODULE Spec2Model ----
(***************************************************************************)
(* Model of the forge-sdk-go request builder (src/forge.go, the current    *)
(* version of the file: lines 368-1071) and of the types it uses           *)
(* (src/types.go).                                                         *)
(*                                                                         *)
(* A RenderRequest is the record r.  A Go pointer field is modelled as a   *)
(* sequence of length at most one: <<>> is nil, <<v>> points to v, so that *)
(* "unset" and "set to the zero value" are different values, as in Go.     *)
(* A float64 is represented by an integer standing for it.                 *)
(* A Go map[string]any is a function whose DOMAIN is its set of keys.      *)
(***************************************************************************)
EXTENDS Integers, Sequences, FiniteSets, TLC

\* ------------------------------------------------------------------ bounds
\* Number of setter calls made on the request in one behaviour.
MaxCalls == 2

\* Length in bytes of the base address given to NewClient.
MaxBaseLen == 3

\* Number of Send / Health calls in one behaviour.
MaxSends == 1

\* Number of Send / Health calls that run at the same time on one request.
MaxConcurrent == 2

\* ------------------------------------------------- pointers, maps, values
Nil == <<>>

Ptr(v) == <<v>>

Deref(p) == p[1]

EmptyMap == <<>>

\* m[k] = v of a Go map: adds the key or overwrites its value.
Put(m, k, v) == [x \in (DOMAIN m) \cup {k} |-> IF x = k THEN v ELSE m[x]]

\* A Go []string: the nil slice and the empty slice are different values.
NilSlice == [isNil |-> TRUE, elems |-> <<>>]

Slice(s) == [isNil |-> FALSE, elems |-> s]

\* A non-nil interface value (any) holding a string or a []string.
AnyString(s) == [dyn |-> "string", str |-> s, isNil |-> FALSE, elems |-> <<>>]

AnySlice(sl) == [dyn |-> "[]string", str |-> "", isNil |-> sl.isNil, elems |-> sl.elems]

\* ------------------------------------------------------- argument domains
\* The domains of the string, int, float64 and bool arguments hold the zero
\* value of the type and one other value.
Strings == {"", "x"}

Ints == {0, 1280}

Floats == {0, 300}

Bools == {FALSE, TRUE}

HtmlArgs == {""}

UrlArgs == {"https://example.com"}

\* OutputFormat is a string type: any string converts to it, "" included.
OutputFormats == {"", "png"}

\* The other enumerations are string types too; one declared constant each.
Orientations == {"landscape"}

Flows == {"paginate"}

DitherMethods == {"atkinson"}

Palettes == {"", "auto"}

CustomPalettes == {NilSlice, Slice(<<"#000000", "#ffffff">>)}

WatermarkLayers == {"under"}

PdfStandards == {"pdf/a-2b"}

PdfModes == {"vector"}

AccessibilityLevels == {"pdf/ua-1"}

BarcodeTypes == {"qr", "ean13"}

\* ------------------------------------------------------------ types.go
\* EmbeddedFile{Path, Data} with the other members at their zero value.
EmbeddedFile(path, data) ==
  [Path |-> path, Data |-> data, MimeType |-> "", Description |-> "",
   Relationship |-> ""]

\* BarcodeConfig{Type, Data} with every optional member nil.
BarcodeConfig(type, data) ==
  [Type |-> type, Data |-> data, X |-> Nil, Y |-> Nil, Width |-> Nil,
   Height |-> Nil, Anchor |-> Nil, Foreground |-> Nil, Background |-> Nil,
   DrawBg |-> Nil, Pages |-> Nil]

BarcodeOptional ==
  {"X", "Y", "Width", "Height", "Anchor", "Foreground", "Background",
   "DrawBg", "Pages"}

\* The zero value of the type an optional member of BarcodeConfig points to.
ZeroOf(m) ==
  CASE m \in {"X", "Y", "Width", "Height"} -> 0
    [] m \in {"Anchor", "Foreground", "Background", "Pages"} -> ""
    [] m = "DrawBg" -> FALSE

FullBarcodeConfig ==
  [Type |-> "code128", Data |-> "ABC-12345", X |-> Ptr(10), Y |-> Ptr(20),
   Width |-> Ptr(100), Height |-> Ptr(50), Anchor |-> Ptr("bottom-right"),
   Foreground |-> Ptr("#000000"), Background |-> Ptr("#ffffff"),
   DrawBg |-> Ptr(TRUE), Pages |-> Ptr("1,3-5")]

\* BarcodeConfig{Type, Data} with the members M pointing to the zero value of
\* their type and the other optional members nil.
ZeroBarcodeConfig(type, data, M) ==
  [m \in DOMAIN BarcodeConfig(type, data) |->
     IF m \in M THEN Ptr(ZeroOf(m)) ELSE BarcodeConfig(type, data)[m]]

\* The configs passed to PdfBarcodeWith: no optional member, some optional
\* members pointing to the zero value of their type, or all of them set.
BarcodeConfigs ==
  { BarcodeConfig("code128", ""),
    ZeroBarcodeConfig("code128", "ABC-12345", {"X", "Width", "Foreground", "DrawBg"}),
    ZeroBarcodeConfig("code128", "ABC-12345", {"Y", "Height", "Anchor", "Background", "Pages"}),
    FullBarcodeConfig }

\* An option of PdfAttach is a func(*EmbeddedFile); the ones modelled assign
\* one member of the file.
AttachOption(member, value) == [member |-> member, value |-> value]

\* The option lists passed to PdfAttach: none, one option per member, and a
\* mime type assigned and then reset to "".
AttachOptionLists ==
  { <<>>,
    <<AttachOption("MimeType", "text/xml"), AttachOption("Description", "invoice"),
      AttachOption("Relationship", "alternative")>>,
    <<AttachOption("MimeType", "text/xml"), AttachOption("MimeType", "")>> }

\* ------------------------------------------------------------------ state
VARIABLES
  r,             \* the RenderRequest
  payload,       \* Nil, or Ptr(the map returned by the last buildPayload call)
  calls,         \* number of setter calls made so far
  args,          \* history: single-value setter name -> argument of its last call
  factory,       \* history: the factory call that created r and its argument
  paletteCalls,  \* history: the names of the Palette / CustomPalette calls, in call order
  barcodeCalls,  \* history: the PdfBarcode / PdfBarcodeWith calls, in call order
  attachCalls,   \* history: the PdfAttach calls, in call order
  client,        \* the Client object: Nil before NewClient, else <<[baseURL, httpClient]>>
  httpClients,   \* the http.Client objects that exist, by identity: [Timeout]
  newClientArgs, \* history: the arguments of the NewClient call
  sends,         \* the Send / Health calls, each with its position and result
  server,        \* the responses the server at the base address can give
  sibling        \* a second RenderRequest made from the same Client, Nil before

builderVars == <<r, payload, calls, args, factory, paletteCalls, barcodeCalls, attachCalls>>

clientVars == <<client, httpClients, newClientArgs>>

worldVars == <<server, sibling>>

vars == <<r, payload, calls, args, factory, paletteCalls, barcodeCalls, attachCalls,
          client, httpClients, newClientArgs, sends, server, sibling>>

\* The zero value of RenderRequest: every pointer nil, format "", slices empty.
ZeroRenderRequest ==
  [client |-> Nil, html |-> Nil, url |-> Nil, format |-> "",
   width |-> Nil, height |-> Nil, paper |-> Nil, orientation |-> Nil,
   margins |-> Nil, flow |-> Nil, density |-> Nil, background |-> Nil,
   timeout |-> Nil, colors |-> Nil, palette |-> Nil, dither |-> Nil,
   pdfTitle |-> Nil, pdfAuthor |-> Nil, pdfSubject |-> Nil,
   pdfKeywords |-> Nil, pdfCreator |-> Nil, pdfBookmarks |-> Nil,
   pdfPageNumbers |-> Nil, pdfWatermarkText |-> Nil,
   pdfWatermarkImage |-> Nil, pdfWatermarkOpacity |-> Nil,
   pdfWatermarkRotation |-> Nil, pdfWatermarkColor |-> Nil,
   pdfWatermarkFontSize |-> Nil, pdfWatermarkScale |-> Nil,
   pdfWatermarkLayer |-> Nil, pdfWatermarkPages |-> Nil,
   pdfStandard |-> Nil, pdfEmbeddedFiles |-> <<>>, pdfBarcodes |-> <<>>,
   pdfMode |-> Nil, pdfSignCertificate |-> Nil, pdfSignPassword |-> Nil,
   pdfSignName |-> Nil, pdfSignReason |-> Nil, pdfSignLocation |-> Nil,
   pdfSignTimestampUrl |-> Nil, pdfUserPassword |-> Nil,
   pdfOwnerPassword |-> Nil, pdfPermissions |-> Nil,
   pdfAccessibility |-> Nil, pdfLinearize |-> Nil]

\* The Client the requests are bound to (a pointer, here its identity).
TheClient == Ptr("client")

\* Client.RenderHTML: &RenderRequest{client: c, html: &html}
RenderHTML(c, html) == [ZeroRenderRequest EXCEPT !.client = c, !.html = Ptr(html)]

\* Client.RenderURL: &RenderRequest{client: c, url: &url}
RenderURL(c, url) == [ZeroRenderRequest EXCEPT !.client = c, !.url = Ptr(url)]

\* ------------------------------------------------------------------ Client
\* A base address is a sequence of bytes.  "h" stands for any byte that is
\* neither '/' nor a control byte, "DEL" for the control byte 0x7f.
Bytes == {"h", "/", "DEL"}

BaseURLs == UNION {[1..n -> Bytes] : n \in 0..MaxBaseLen}

\* time.Duration values, in seconds.
DefaultTimeout == 120

Durations == {30}

\* The http.Client the caller owns and may hand over with WithHTTPClient;
\* its Timeout is the zero value.  NewClient allocates the other one.
CallerHTTPClient == "caller"

OwnHTTPClient == "own"

CallerHeap == Put(EmptyMap, CallerHTTPClient, [Timeout |-> 0])

\* An Option is a closure over its argument; st is the Client being built
\* together with the http.Client objects it can reach.
WithTimeout(d) == [option |-> "WithTimeout", d |-> d, hc |-> ""]

WithHTTPClient(hc) == [option |-> "WithHTTPClient", d |-> 0, hc |-> hc]

ApplyOption(o, st) ==
  IF o.option = "WithTimeout"
  THEN [st EXCEPT !.heap[st.c.httpClient].Timeout = o.d]
  ELSE [st EXCEPT !.c.httpClient = o.hc]

OptionLists ==
  {<<>>} \cup
  {<<WithTimeout(d)>> : d \in Durations} \cup
  {<<WithHTTPClient(CallerHTTPClient)>>} \cup
  {<<WithTimeout(d), WithHTTPClient(CallerHTTPClient)>> : d \in Durations} \cup
  {<<WithHTTPClient(CallerHTTPClient), WithTimeout(d)>> : d \in Durations}

\* The loop that strips trailing slashes.
\* Mutant of StripTrailingSlashes: an if in place of the loop.
StripTrailingSlashes_Once(baseURL) ==
  IF Len(baseURL) > 0 /\ baseURL[Len(baseURL)] = "/"
  THEN SubSeq(baseURL, 1, Len(baseURL) - 1)
  ELSE baseURL

RECURSIVE StripTrailingSlashes(_)
StripTrailingSlashes(baseURL) ==
  IF Len(baseURL) > 0 /\ baseURL[Len(baseURL)] = "/"
  THEN StripTrailingSlashes(SubSeq(baseURL, 1, Len(baseURL) - 1))
  ELSE baseURL

RECURSIVE ApplyOpts(_, _)
ApplyOpts(opts, st) ==
  IF opts = <<>> THEN st
  ELSE ApplyOpts(Tail(opts), ApplyOption(Head(opts), st))

\* NewClient: the Client it returns and the http.Client objects afterwards.
NewClient(baseURL, opts, heap) ==
  ApplyOpts(opts,
    [c    |-> [baseURL |-> StripTrailingSlashes(baseURL), httpClient |-> OwnHTTPClient],
     heap |-> Put(heap, OwnHTTPClient, [Timeout |-> DefaultTimeout])])

\* The addresses the two operations of a Client send their request to.
RenderEndpoint(c) == c.baseURL \o <<"/", "r", "e", "n", "d", "e", "r">>

HealthEndpoint(c) == c.baseURL \o <<"/", "h", "e", "a", "l", "t", "h">>

\* A call of Send or Health that has not started.
IdleCall ==
  [kind |-> "", pc |-> "idle", ctxDone |-> FALSE, request |-> Nil,
   exchanges |-> 0, transportErr |-> Nil, resp |-> Nil, readErr |-> Nil,
   closed |-> 0, ret |-> Nil]

NoCalls == [id \in 1..MaxSends |-> IdleCall]

\* A server that gives no response: every exchange fails in the transport.
Unreachable == {}

\* No Send or Health call was made, no server is reached and the Client made
\* one request only.
NoTraffic ==
  /\ sends = NoCalls
  /\ server = Unreachable
  /\ sibling = Nil

\* The client of the builder's behaviours.
DefaultBase == <<"h">>

ClientMade(baseURL, opts) ==
  LET st == NewClient(baseURL, opts, CallerHeap)
  IN  /\ client = Ptr(st.c)
      /\ httpClients = st.heap
      /\ newClientArgs = Ptr([baseURL |-> baseURL, opts |-> opts])

Init ==
  /\ ClientMade(DefaultBase, <<>>)
  /\ NoTraffic
  /\ \/ \E html \in HtmlArgs :
          /\ r = RenderHTML(TheClient, html)
          /\ factory = [name |-> "RenderHTML", arg |-> html]
     \/ \E url \in UrlArgs :
          /\ r = RenderURL(TheClient, url)
          /\ factory = [name |-> "RenderURL", arg |-> url]
  /\ payload = Nil
  /\ calls = 0
  /\ args = EmptyMap
  /\ paletteCalls = <<>>
  /\ barcodeCalls = <<>>
  /\ attachCalls = <<>>

\* ---------------------------------------------------------------- setters
\* What every setter call does to the history: it counts the call and the
\* map returned by an earlier buildPayload is no longer the payload of r.
Called ==
  /\ calls < MaxCalls
  /\ calls' = calls + 1
  /\ payload' = Nil
  /\ UNCHANGED <<clientVars, sends, worldVars>>

\* The history of a single-value setter: its last argument.
Record(setter, arg) ==
  /\ Called
  /\ args' = Put(args, setter, arg)
  /\ UNCHANGED <<factory, paletteCalls, barcodeCalls, attachCalls>>

\* r.format = string(f): a plain string, not a pointer.
Format ==
  \E f \in OutputFormats :
    /\ r' = [r EXCEPT !.format = f]
    /\ Record("Format", f)

Width ==
  \E px \in Ints :
    /\ r' = [r EXCEPT !.width = Ptr(px)]
    /\ Record("Width", px)

Height ==
  \E px \in Ints :
    /\ r' = [r EXCEPT !.height = Ptr(px)]
    /\ Record("Height", px)

Paper ==
  \E size \in Strings :
    /\ r' = [r EXCEPT !.paper = Ptr(size)]
    /\ Record("Paper", size)

Orientation ==
  \E o \in Orientations :
    /\ r' = [r EXCEPT !.orientation = Ptr(o)]
    /\ Record("Orientation", o)

Margins ==
  \E m \in Strings :
    /\ r' = [r EXCEPT !.margins = Ptr(m)]
    /\ Record("Margins", m)

Flow ==
  \E f \in Flows :
    /\ r' = [r EXCEPT !.flow = Ptr(f)]
    /\ Record("Flow", f)

Density ==
  \E dpi \in Floats :
    /\ r' = [r EXCEPT !.density = Ptr(dpi)]
    /\ Record("Density", dpi)

Background ==
  \E color \in Strings :
    /\ r' = [r EXCEPT !.background = Ptr(color)]
    /\ Record("Background", color)

\* Mutant of Timeout: the seconds are also written to the http.Client of the
\* Client the request is bound to.
Timeout_SetsClientTimeout ==
  \E seconds \in Ints :
    /\ r' = [r EXCEPT !.timeout = Ptr(seconds)]
    /\ calls < MaxCalls
    /\ calls' = calls + 1
    /\ payload' = Nil
    /\ args' = Put(args, "Timeout", seconds)
    /\ httpClients' = [httpClients EXCEPT ![Deref(client).httpClient].Timeout = seconds]
    /\ UNCHANGED <<factory, paletteCalls, barcodeCalls, attachCalls>>
    /\ UNCHANGED <<client, newClientArgs, sends, worldVars>>

Timeout ==
  \E seconds \in Ints :
    /\ r' = [r EXCEPT !.timeout = Ptr(seconds)]
    /\ Record("Timeout", seconds)

\* Mutant of Colors: setting the colour count resets the palette.
Colors_ClearsPalette ==
  \E n \in Ints :
    /\ r' = [r EXCEPT !.colors = Ptr(n), !.palette = Nil]
    /\ Record("Colors", n)

Colors ==
  \E n \in Ints :
    /\ r' = [r EXCEPT !.colors = Ptr(n)]
    /\ Record("Colors", n)

\* Mutant of Palette: a palette set earlier is kept.
Palette_KeepExisting ==
  \E p \in Palettes :
    /\ r' = IF r.palette = Nil THEN [r EXCEPT !.palette = Ptr(AnyString(p))] ELSE r
    /\ Called
    /\ args' = Put(args, "Palette", p)
    /\ paletteCalls' = Append(paletteCalls, "Palette")
    /\ UNCHANGED <<factory, barcodeCalls, attachCalls>>

\* r.palette = string(p): the interface holds a string.
Palette ==
  \E p \in Palettes :
    /\ r' = [r EXCEPT !.palette = Ptr(AnyString(p))]
    /\ Called
    /\ args' = Put(args, "Palette", p)
    /\ paletteCalls' = Append(paletteCalls, "Palette")
    /\ UNCHANGED <<factory, barcodeCalls, attachCalls>>

\* r.palette = colors: the interface holds a []string, nil or not.
CustomPalette ==
  \E colors \in CustomPalettes :
    /\ r' = [r EXCEPT !.palette = Ptr(AnySlice(colors))]
    /\ Called
    /\ args' = Put(args, "CustomPalette", colors)
    /\ paletteCalls' = Append(paletteCalls, "CustomPalette")
    /\ UNCHANGED <<factory, barcodeCalls, attachCalls>>

\* Mutant of Dither: the method is kept only when colors was set before.
Dither_NeedsColors ==
  \E method \in DitherMethods :
    /\ r' = IF r.colors # Nil THEN [r EXCEPT !.dither = Ptr(method)] ELSE r
    /\ Record("Dither", method)

Dither ==
  \E method \in DitherMethods :
    /\ r' = [r EXCEPT !.dither = Ptr(method)]
    /\ Record("Dither", method)

PdfTitle ==
  \E title \in Strings :
    /\ r' = [r EXCEPT !.pdfTitle = Ptr(title)]
    /\ Record("PdfTitle", title)

PdfAuthor ==
  \E author \in Strings :
    /\ r' = [r EXCEPT !.pdfAuthor = Ptr(author)]
    /\ Record("PdfAuthor", author)

PdfSubject ==
  \E subject \in Strings :
    /\ r' = [r EXCEPT !.pdfSubject = Ptr(subject)]
    /\ Record("PdfSubject", subject)

PdfKeywords ==
  \E keywords \in Strings :
    /\ r' = [r EXCEPT !.pdfKeywords = Ptr(keywords)]
    /\ Record("PdfKeywords", keywords)

PdfCreator ==
  \E creator \in Strings :
    /\ r' = [r EXCEPT !.pdfCreator = Ptr(creator)]
    /\ Record("PdfCreator", creator)

PdfBookmarks ==
  \E enabled \in Bools :
    /\ r' = [r EXCEPT !.pdfBookmarks = Ptr(enabled)]
    /\ Record("PdfBookmarks", enabled)

PdfPageNumbers ==
  \E enabled \in Bools :
    /\ r' = [r EXCEPT !.pdfPageNumbers = Ptr(enabled)]
    /\ Record("PdfPageNumbers", enabled)

PdfWatermarkText ==
  \E text \in Strings :
    /\ r' = [r EXCEPT !.pdfWatermarkText = Ptr(text)]
    /\ Record("PdfWatermarkText", text)

PdfWatermarkImage ==
  \E base64Data \in Strings :
    /\ r' = [r EXCEPT !.pdfWatermarkImage = Ptr(base64Data)]
    /\ Record("PdfWatermarkImage", base64Data)

PdfWatermarkOpacity ==
  \E opacity \in Floats :
    /\ r' = [r EXCEPT !.pdfWatermarkOpacity = Ptr(opacity)]
    /\ Record("PdfWatermarkOpacity", opacity)

PdfWatermarkRotation ==
  \E degrees \in Floats :
    /\ r' = [r EXCEPT !.pdfWatermarkRotation = Ptr(degrees)]
    /\ Record("PdfWatermarkRotation", degrees)

PdfWatermarkColor ==
  \E hex \in Strings :
    /\ r' = [r EXCEPT !.pdfWatermarkColor = Ptr(hex)]
    /\ Record("PdfWatermarkColor", hex)

PdfWatermarkFontSize ==
  \E size \in Floats :
    /\ r' = [r EXCEPT !.pdfWatermarkFontSize = Ptr(size)]
    /\ Record("PdfWatermarkFontSize", size)

PdfWatermarkScale ==
  \E scale \in Floats :
    /\ r' = [r EXCEPT !.pdfWatermarkScale = Ptr(scale)]
    /\ Record("PdfWatermarkScale", scale)

PdfWatermarkLayer ==
  \E layer \in WatermarkLayers :
    /\ r' = [r EXCEPT !.pdfWatermarkLayer = Ptr(layer)]
    /\ Record("PdfWatermarkLayer", layer)

PdfStandard ==
  \E standard \in PdfStandards :
    /\ r' = [r EXCEPT !.pdfStandard = Ptr(standard)]
    /\ Record("PdfStandard", standard)

\* for _, opt := range opts { opt(&ef) }
RECURSIVE ApplyOptions(_, _)
ApplyOptions(ef, opts) ==
  IF opts = <<>> THEN ef
  ELSE ApplyOptions([ef EXCEPT ![Head(opts).member] = Head(opts).value], Tail(opts))

PdfAttach ==
  \E path \in {"factur-x.xml"}, data \in {"", "PHhtbD4="}, opts \in AttachOptionLists :
    LET ef == ApplyOptions(EmbeddedFile(path, data), opts) IN
    /\ r' = [r EXCEPT !.pdfEmbeddedFiles = Append(r.pdfEmbeddedFiles, ef)]
    /\ Called
    /\ attachCalls' = Append(attachCalls, [path |-> path, data |-> data, opts |-> opts])
    /\ UNCHANGED <<args, factory, paletteCalls, barcodeCalls>>

PdfWatermarkPages ==
  \E pages \in Strings :
    /\ r' = [r EXCEPT !.pdfWatermarkPages = Ptr(pages)]
    /\ Record("PdfWatermarkPages", pages)

PdfBarcode ==
  \E barcodeType \in BarcodeTypes, data \in {"4006381333931"} :
    /\ r' = [r EXCEPT !.pdfBarcodes =
                Append(r.pdfBarcodes, BarcodeConfig(barcodeType, data))]
    /\ Called
    /\ barcodeCalls' = Append(barcodeCalls,
          [setter |-> "PdfBarcode", type |-> barcodeType, data |-> data,
           provided |-> EmptyMap])
    /\ UNCHANGED <<args, factory, paletteCalls, attachCalls>>

PdfBarcodeWith ==
  \E config \in BarcodeConfigs :
    /\ r' = [r EXCEPT !.pdfBarcodes = Append(r.pdfBarcodes, config)]
    /\ Called
    /\ barcodeCalls' = Append(barcodeCalls,
          [setter |-> "PdfBarcodeWith", type |-> config.Type, data |-> config.Data,
           provided |-> [m \in {x \in BarcodeOptional : config[x] # Nil} |->
                           Deref(config[m])]])
    /\ UNCHANGED <<args, factory, paletteCalls, attachCalls>>

PdfMode ==
  \E mode \in PdfModes :
    /\ r' = [r EXCEPT !.pdfMode = Ptr(mode)]
    /\ Record("PdfMode", mode)

PdfSignCertificate ==
  \E data \in Strings :
    /\ r' = [r EXCEPT !.pdfSignCertificate = Ptr(data)]
    /\ Record("PdfSignCertificate", data)

PdfSignPassword ==
  \E password \in Strings :
    /\ r' = [r EXCEPT !.pdfSignPassword = Ptr(password)]
    /\ Record("PdfSignPassword", password)

PdfSignName ==
  \E name \in Strings :
    /\ r' = [r EXCEPT !.pdfSignName = Ptr(name)]
    /\ Record("PdfSignName", name)

PdfSignReason ==
  \E reason \in Strings :
    /\ r' = [r EXCEPT !.pdfSignReason = Ptr(reason)]
    /\ Record("PdfSignReason", reason)

PdfSignLocation ==
  \E location \in Strings :
    /\ r' = [r EXCEPT !.pdfSignLocation = Ptr(location)]
    /\ Record("PdfSignLocation", location)

PdfSignTimestampUrl ==
  \E url \in Strings :
    /\ r' = [r EXCEPT !.pdfSignTimestampUrl = Ptr(url)]
    /\ Record("PdfSignTimestampUrl", url)

PdfUserPassword ==
  \E password \in Strings :
    /\ r' = [r EXCEPT !.pdfUserPassword = Ptr(password)]
    /\ Record("PdfUserPassword", password)

PdfOwnerPassword ==
  \E password \in Strings :
    /\ r' = [r EXCEPT !.pdfOwnerPassword = Ptr(password)]
    /\ Record("PdfOwnerPassword", password)

PdfPermissions ==
  \E permissions \in Strings :
    /\ r' = [r EXCEPT !.pdfPermissions = Ptr(permissions)]
    /\ Record("PdfPermissions", permissions)

PdfAccessibility ==
  \E level \in AccessibilityLevels :
    /\ r' = [r EXCEPT !.pdfAccessibility = Ptr(level)]
    /\ Record("PdfAccessibility", level)

PdfLinearize ==
  \E enabled \in Bools :
    /\ r' = [r EXCEPT !.pdfLinearize = Ptr(enabled)]
    /\ Record("PdfLinearize", enabled)

\* ------------------------------------------------------------ buildPayload
\* if r.X != nil { m[key] = *r.X }
PutIfSet(m, key, ptr) == IF ptr # Nil THEN Put(m, key, Deref(ptr)) ELSE m

\* if s != "" { m[key] = s }
PutIfNonEmpty(m, key, s) == IF s # "" THEN Put(m, key, s) ELSE m

\* Mutant of sourceFields: html is tested against "" instead of nil.
sourceFields_HtmlNonEmpty(req, p) ==
  LET p1 == IF req.html # Nil /\ Deref(req.html) # ""
            THEN Put(p, "html", Deref(req.html)) ELSE p
  IN  PutIfSet(p1, "url", req.url)

sourceFields(req, p) ==
  PutIfSet(PutIfSet(p, "html", req.html), "url", req.url)

\* Mutant of formatField: the default is left out, format is written only
\* when it was set.
formatField_NoDefault(req, p) == PutIfNonEmpty(p, "format", req.format)

formatField(req, p) ==
  LET format == IF req.format = "" THEN "pdf" ELSE req.format
  IN  Put(p, "format", format)

\* Mutant of layoutFields: timeout is tested against zero instead of nil.
layoutFields_TimeoutNonZero(req, p) ==
  LET p1 == PutIfSet(p, "width", req.width)
      p2 == PutIfSet(p1, "height", req.height)
      p3 == PutIfSet(p2, "paper", req.paper)
      p4 == PutIfSet(p3, "orientation", req.orientation)
      p5 == PutIfSet(p4, "margins", req.margins)
      p6 == PutIfSet(p5, "flow", req.flow)
      p7 == PutIfSet(p6, "density", req.density)
      p8 == PutIfSet(p7, "background", req.background)
  IN  IF req.timeout # Nil /\ Deref(req.timeout) # 0
      THEN Put(p8, "timeout", Deref(req.timeout)) ELSE p8

layoutFields(req, p) ==
  LET p1 == PutIfSet(p, "width", req.width)
      p2 == PutIfSet(p1, "height", req.height)
      p3 == PutIfSet(p2, "paper", req.paper)
      p4 == PutIfSet(p3, "orientation", req.orientation)
      p5 == PutIfSet(p4, "margins", req.margins)
      p6 == PutIfSet(p5, "flow", req.flow)
      p7 == PutIfSet(p6, "density", req.density)
      p8 == PutIfSet(p7, "background", req.background)
  IN  PutIfSet(p8, "timeout", req.timeout)

\* Mutant of quantizeGroup: the presence test forgets the palette.
quantizeGroup_NoPalette(req, p) ==
  IF req.colors # Nil \/ req.dither # Nil
  THEN LET q1 == PutIfSet(EmptyMap, "colors", req.colors)
           q2 == PutIfSet(q1, "palette", req.palette)
           q3 == PutIfSet(q2, "dither", req.dither)
       IN  Put(p, "quantize", q3)
  ELSE p

quantizeGroup(req, p) ==
  IF req.colors # Nil \/ req.palette # Nil \/ req.dither # Nil
  THEN LET q1 == PutIfSet(EmptyMap, "colors", req.colors)
           q2 == PutIfSet(q1, "palette", req.palette)
           q3 == PutIfSet(q2, "dither", req.dither)
       IN  Put(p, "quantize", q3)
  ELSE p

\* Mutant of hasWatermark: the presence test forgets pdfWatermarkPages.
hasWatermark_NoPages(req) ==
  \/ req.pdfWatermarkText # Nil \/ req.pdfWatermarkImage # Nil
  \/ req.pdfWatermarkOpacity # Nil \/ req.pdfWatermarkRotation # Nil
  \/ req.pdfWatermarkColor # Nil \/ req.pdfWatermarkFontSize # Nil
  \/ req.pdfWatermarkScale # Nil \/ req.pdfWatermarkLayer # Nil

hasWatermark(req) ==
  \/ req.pdfWatermarkText # Nil \/ req.pdfWatermarkImage # Nil
  \/ req.pdfWatermarkOpacity # Nil \/ req.pdfWatermarkRotation # Nil
  \/ req.pdfWatermarkColor # Nil \/ req.pdfWatermarkFontSize # Nil
  \/ req.pdfWatermarkScale # Nil \/ req.pdfWatermarkLayer # Nil
  \/ req.pdfWatermarkPages # Nil

hasSignature(req) ==
  \/ req.pdfSignCertificate # Nil \/ req.pdfSignPassword # Nil
  \/ req.pdfSignName # Nil \/ req.pdfSignReason # Nil
  \/ req.pdfSignLocation # Nil \/ req.pdfSignTimestampUrl # Nil

hasEncryption(req) ==
  \/ req.pdfUserPassword # Nil \/ req.pdfOwnerPassword # Nil
  \/ req.pdfPermissions # Nil

\* Mutant of hasPdf: the presence test forgets the barcodes.
hasPdf_NoBarcodes(req) ==
  \/ req.pdfTitle # Nil \/ req.pdfAuthor # Nil \/ req.pdfSubject # Nil
  \/ req.pdfKeywords # Nil \/ req.pdfCreator # Nil \/ req.pdfBookmarks # Nil
  \/ req.pdfPageNumbers # Nil \/ hasWatermark(req)
  \/ req.pdfStandard # Nil \/ Len(req.pdfEmbeddedFiles) > 0
  \/ req.pdfMode # Nil \/ hasSignature(req) \/ hasEncryption(req)
  \/ req.pdfAccessibility # Nil
  \/ req.pdfLinearize # Nil

hasPdf(req) ==
  \/ req.pdfTitle # Nil \/ req.pdfAuthor # Nil \/ req.pdfSubject # Nil
  \/ req.pdfKeywords # Nil \/ req.pdfCreator # Nil \/ req.pdfBookmarks # Nil
  \/ req.pdfPageNumbers # Nil \/ hasWatermark(req)
  \/ req.pdfStandard # Nil \/ Len(req.pdfEmbeddedFiles) > 0
  \/ Len(req.pdfBarcodes) > 0
  \/ req.pdfMode # Nil \/ hasSignature(req) \/ hasEncryption(req)
  \/ req.pdfAccessibility # Nil
  \/ req.pdfLinearize # Nil

pdfMetadata(req, pdf) ==
  LET m1 == PutIfSet(pdf, "title", req.pdfTitle)
      m2 == PutIfSet(m1, "author", req.pdfAuthor)
      m3 == PutIfSet(m2, "subject", req.pdfSubject)
      m4 == PutIfSet(m3, "keywords", req.pdfKeywords)
      m5 == PutIfSet(m4, "creator", req.pdfCreator)
      m6 == PutIfSet(m5, "bookmarks", req.pdfBookmarks)
  IN  PutIfSet(m6, "page_numbers", req.pdfPageNumbers)

watermarkObject(req) ==
  LET w1 == PutIfSet(EmptyMap, "text", req.pdfWatermarkText)
      w2 == PutIfSet(w1, "image_data", req.pdfWatermarkImage)
      w3 == PutIfSet(w2, "opacity", req.pdfWatermarkOpacity)
      w4 == PutIfSet(w3, "rotation", req.pdfWatermarkRotation)
      w5 == PutIfSet(w4, "color", req.pdfWatermarkColor)
      w6 == PutIfSet(w5, "font_size", req.pdfWatermarkFontSize)
      w7 == PutIfSet(w6, "scale", req.pdfWatermarkScale)
      w8 == PutIfSet(w7, "layer", req.pdfWatermarkLayer)
  IN  PutIfSet(w8, "pages", req.pdfWatermarkPages)

\* Mutant of embeddedFileEntry: mime_type is written without the test.
embeddedFileEntry_AlwaysMime(ef) ==
  LET f0 == Put(Put(EmptyMap, "path", ef.Path), "data", ef.Data)
      f1 == Put(f0, "mime_type", ef.MimeType)
      f2 == PutIfNonEmpty(f1, "description", ef.Description)
  IN  PutIfNonEmpty(f2, "relationship", ef.Relationship)

\* The map built for one EmbeddedFile in the loop over r.pdfEmbeddedFiles.
embeddedFileEntry(ef) ==
  LET f0 == Put(Put(EmptyMap, "path", ef.Path), "data", ef.Data)
      f1 == PutIfNonEmpty(f0, "mime_type", ef.MimeType)
      f2 == PutIfNonEmpty(f1, "description", ef.Description)
  IN  PutIfNonEmpty(f2, "relationship", ef.Relationship)

\* files[i] = f for i, ef := range r.pdfEmbeddedFiles
embeddedFilesArray(req) ==
  [i \in 1..Len(req.pdfEmbeddedFiles) |-> embeddedFileEntry(req.pdfEmbeddedFiles[i])]

\* Mutant of barcodeEntry: draw_background is written only when it is true.
barcodeEntry_DrawBgTrue(bc) ==
  LET b0 == Put(Put(EmptyMap, "type", bc.Type), "data", bc.Data)
      b1 == PutIfSet(b0, "x", bc.X)
      b2 == PutIfSet(b1, "y", bc.Y)
      b3 == PutIfSet(b2, "width", bc.Width)
      b4 == PutIfSet(b3, "height", bc.Height)
      b5 == PutIfSet(b4, "anchor", bc.Anchor)
      b6 == PutIfSet(b5, "foreground", bc.Foreground)
      b7 == PutIfSet(b6, "background", bc.Background)
      b8 == IF bc.DrawBg # Nil /\ Deref(bc.DrawBg)
            THEN Put(b7, "draw_background", TRUE) ELSE b7
  IN  PutIfSet(b8, "pages", bc.Pages)

\* The map built for one BarcodeConfig in the loop over r.pdfBarcodes.
barcodeEntry(bc) ==
  LET b0 == Put(Put(EmptyMap, "type", bc.Type), "data", bc.Data)
      b1 == PutIfSet(b0, "x", bc.X)
      b2 == PutIfSet(b1, "y", bc.Y)
      b3 == PutIfSet(b2, "width", bc.Width)
      b4 == PutIfSet(b3, "height", bc.Height)
      b5 == PutIfSet(b4, "anchor", bc.Anchor)
      b6 == PutIfSet(b5, "foreground", bc.Foreground)
      b7 == PutIfSet(b6, "background", bc.Background)
      b8 == PutIfSet(b7, "draw_background", bc.DrawBg)
  IN  PutIfSet(b8, "pages", bc.Pages)

\* barcodes[i] = b for i, bc := range r.pdfBarcodes
barcodesArray(req) ==
  [i \in 1..Len(req.pdfBarcodes) |-> barcodeEntry(req.pdfBarcodes[i])]

signatureObject(req) ==
  LET s1 == PutIfSet(EmptyMap, "certificate_data", req.pdfSignCertificate)
      s2 == PutIfSet(s1, "password", req.pdfSignPassword)
      s3 == PutIfSet(s2, "signer_name", req.pdfSignName)
      s4 == PutIfSet(s3, "reason", req.pdfSignReason)
      s5 == PutIfSet(s4, "location", req.pdfSignLocation)
  IN  PutIfSet(s5, "timestamp_url", req.pdfSignTimestampUrl)

encryptionObject(req) ==
  LET e1 == PutIfSet(EmptyMap, "user_password", req.pdfUserPassword)
      e2 == PutIfSet(e1, "owner_password", req.pdfOwnerPassword)
  IN  PutIfSet(e2, "permissions", req.pdfPermissions)

pdfGroup(req, p) ==
  IF hasPdf(req)
  THEN LET d1 == pdfMetadata(req, EmptyMap)
           d2 == IF hasWatermark(req) THEN Put(d1, "watermark", watermarkObject(req)) ELSE d1
           d3 == PutIfSet(d2, "standard", req.pdfStandard)
           d4 == IF Len(req.pdfEmbeddedFiles) > 0
                 THEN Put(d3, "embedded_files", embeddedFilesArray(req)) ELSE d3
           d5 == IF Len(req.pdfBarcodes) > 0
                 THEN Put(d4, "barcodes", barcodesArray(req)) ELSE d4
           d6 == PutIfSet(d5, "mode", req.pdfMode)
           d7 == IF hasSignature(req) THEN Put(d6, "signature", signatureObject(req)) ELSE d6
           d8 == IF hasEncryption(req) THEN Put(d7, "encryption", encryptionObject(req)) ELSE d7
           d9 == PutIfSet(d8, "accessibility", req.pdfAccessibility)
           d10 == PutIfSet(d9, "linearize", req.pdfLinearize)
       IN  Put(p, "pdf", d10)
  ELSE p

\* The map returned by RenderRequest.buildPayload, built in the code's order.
buildPayload(req) ==
  pdfGroup(req,
    quantizeGroup(req,
      layoutFields(req,
        formatField(req,
          sourceFields(req, EmptyMap)))))

\* Mutant of BuildPayload: the default format is stored in the request.
BuildPayload_StoresDefault ==
  /\ payload' = Ptr(buildPayload(r))
  /\ r' = [r EXCEPT !.format = IF @ = "" THEN "pdf" ELSE @]
  /\ UNCHANGED <<calls, args, factory, paletteCalls, barcodeCalls, attachCalls>>
  /\ UNCHANGED <<clientVars, sends, worldVars>>

\* A call of buildPayload: it reads r and returns the map.
BuildPayload ==
  /\ payload' = Ptr(buildPayload(r))
  /\ UNCHANGED <<r, calls, args, factory, paletteCalls, barcodeCalls, attachCalls>>
  /\ UNCHANGED <<clientVars, sends, worldVars>>

\* ------------------------------------------------- client construction
\* Before NewClient is called there is no Client and no RenderRequest.
NoRequest ==
  /\ r = ZeroRenderRequest
  /\ factory = [name |-> "", arg |-> ""]
  /\ payload = Nil
  /\ calls = 0
  /\ args = EmptyMap
  /\ paletteCalls = <<>>
  /\ barcodeCalls = <<>>
  /\ attachCalls = <<>>

ClientInit ==
  /\ client = Nil
  /\ httpClients = CallerHeap
  /\ newClientArgs = Nil
  /\ NoTraffic
  /\ NoRequest

\* A call of NewClient(baseURL, opts...).
NewClientCall ==
  /\ client = Nil
  /\ \E baseURL \in BaseURLs, opts \in OptionLists :
       LET st == NewClient(baseURL, opts, httpClients)
       IN  /\ client' = Ptr(st.c)
           /\ httpClients' = st.heap
           /\ newClientArgs' = Ptr([baseURL |-> baseURL, opts |-> opts])
  /\ UNCHANGED <<builderVars, sends, worldVars>>

ClientNext == NewClientCall

ClientSpec == ClientInit /\ [][ClientNext]_vars

\* ------------------------------------------------------------------ errors
\* A Go error value: its dynamic type, the fields of the two error types of
\* the package, and the error it wraps (nil for an error that wraps none).
GoError(type, text) ==
  [type |-> type, StatusCode |-> 0, Message |-> text, Cause |-> Nil]

\* &ServerError{StatusCode: status, Message: msg}
ServerError(status, msg) ==
  [type |-> "*forge.ServerError", StatusCode |-> status, Message |-> msg, Cause |-> Nil]

\* Mutant of ConnectionError: the cause is dropped.
ConnectionError_NoCause(err) ==
  [type |-> "*forge.ConnectionError", StatusCode |-> 0, Message |-> "", Cause |-> Nil]

\* &ConnectionError{Cause: err}
ConnectionError(err) ==
  [type |-> "*forge.ConnectionError", StatusCode |-> 0, Message |-> "", Cause |-> Ptr(err)]

\* (*ConnectionError).Unwrap
Unwrap(e) == e.Cause

\* fmt.Errorf(prefix + ": %w", err)
Errorf(prefix, err) ==
  [type |-> "*fmt.wrapError", StatusCode |-> 0, Message |-> prefix, Cause |-> Ptr(err)]

\* The errors the calls into the standard library return.
ErrUnsupportedValue == GoError("*json.UnsupportedValueError", "json: unsupported value: NaN")

ErrControlCharacter == GoError("*url.Error", "net/url: invalid control character in URL")

ErrConnectionRefused == GoError("*url.Error", "connect: connection refused")

ErrDoCanceled == GoError("*url.Error", "context canceled")

ErrUnexpectedEOF == GoError("*errors.errorString", "unexpected EOF")

ErrReadCanceled == GoError("context.canceledError", "context canceled")

\* ------------------------------------------------------------ json.Marshal
\* The float64 that is not a number, math.NaN(), among the integers that
\* stand for float64 values.
NaN == 0 - 1

FloatsOf(m, keys) == {m[k] : k \in keys \cap DOMAIN m}

\* The float64 values the map holds: density, the watermark's numbers and
\* the position and size of each barcode.
payloadFloats(p) ==
  FloatsOf(p, {"density"})
    \cup (IF "pdf" \in DOMAIN p /\ "watermark" \in DOMAIN p.pdf
          THEN FloatsOf(p.pdf.watermark, {"opacity", "rotation", "font_size", "scale"})
          ELSE {})
    \cup (IF "pdf" \in DOMAIN p /\ "barcodes" \in DOMAIN p.pdf
          THEN UNION {FloatsOf(p.pdf.barcodes[i], {"x", "y", "width", "height"}) :
                        i \in DOMAIN p.pdf.barcodes}
          ELSE {})

\* json.Marshal(payload): the JSON document of the map, or an error when the
\* map holds a float64 that JSON cannot represent.
jsonMarshal(p) ==
  IF NaN \in payloadFloats(p)
  THEN [body |-> Nil, err |-> Ptr(ErrUnsupportedValue)]
  ELSE [body |-> Ptr([json |-> p]), err |-> Nil]

\* ---------------------------------------------------------- json.Unmarshal
\* The response bodies of the failure responses, as the bytes on the wire.
ErrorBodies ==
  {"",
   "<html>Bad Gateway</html>",
   "{\"error\":\"bad paper size\"}",
   "{\"error\":\"\"}",
   "{\"error\":5}",
   "{\"error\":null}",
   "{}",
   "{\"message\":\"x\"}",
   "null",
   "[]",
   "{\"Error\":\"boom\"}"}

Member(key, type, str) == [key |-> key, type |-> type, str |-> str]

Document(valid, kind, members) == [valid |-> valid, kind |-> kind, members |-> members]

\* What the JSON decoder reads in each of the bodies: whether the bytes are
\* one JSON value, its kind, and the members of an object in document order.
jsonDecode(data) ==
  CASE data = "{\"error\":\"bad paper size\"}" ->
         Document(TRUE, "object", <<Member("error", "string", "bad paper size")>>)
    [] data = "{\"error\":\"\"}" ->
         Document(TRUE, "object", <<Member("error", "string", "")>>)
    [] data = "{\"error\":5}" ->
         Document(TRUE, "object", <<Member("error", "number", "5")>>)
    [] data = "{\"error\":null}" ->
         Document(TRUE, "object", <<Member("error", "null", "")>>)
    [] data = "{}" ->
         Document(TRUE, "object", <<>>)
    [] data = "{\"message\":\"x\"}" ->
         Document(TRUE, "object", <<Member("message", "string", "x")>>)
    [] data = "null" ->
         Document(TRUE, "null", <<>>)
    [] data = "[]" ->
         Document(TRUE, "array", <<>>)
    [] data = "{\"Error\":\"boom\"}" ->
         Document(TRUE, "object", <<Member("Error", "string", "boom")>>)
    [] OTHER ->
         Document(FALSE, "", <<>>)

\* encoding/json matches an object key with the field tagged "error" exactly
\* or, failing that, without regard to case.
MatchesErrorField(key) == key \in {"error", "Error", "ERROR"}

\* The members of an object decoded into struct{ Error string `json:"error"` }:
\* a string is stored, null leaves the field alone, any other value is a type
\* error that is reported after the rest was decoded.
RECURSIVE decodeMembers(_, _)
decodeMembers(members, errResp) ==
  IF members = <<>> THEN errResp
  ELSE LET m == Head(members)
           next == IF ~MatchesErrorField(m.key) \/ m.type = "null" THEN errResp
                   ELSE IF m.type = "string" THEN [errResp EXCEPT !.Error = m.str]
                   ELSE [errResp EXCEPT !.failed = TRUE]
       IN  decodeMembers(Tail(members), next)

\* json.Unmarshal(data, &errResp): failed is "the error returned is not nil".
jsonUnmarshal(data) ==
  LET doc == jsonDecode(data)
      zero == [failed |-> FALSE, Error |-> ""]
  IN  IF ~doc.valid THEN [zero EXCEPT !.failed = TRUE]
      ELSE IF doc.kind = "null" THEN zero
      ELSE IF doc.kind # "object" THEN [zero EXCEPT !.failed = TRUE]
      ELSE decodeMembers(doc.members, zero)

\* ------------------------------------------------------------ Send, Health
StatusOK == 200

\* The responses the server gives: a status and the bytes of the body.
Response(status, body) == [StatusCode |-> status, Body |-> body]

Responses ==
  {Response(200, body) : body \in {"%PDF-1.7", "", "{\"error\":\"bad paper size\"}"}}
    \cup {Response(422, body) : body \in ErrorBodies}
    \cup {Response(status, "") : status \in {201, 500}}

\* http.NewRequestWithContext(ctx, method, url, body): url.Parse rejects an
\* address that holds a control byte.
NewRequestWithContext(method, url, body) ==
  IF \E i \in DOMAIN url : url[i] = "DEL"
  THEN [req |-> Nil, err |-> Ptr(ErrControlCharacter)]
  ELSE [req |-> Ptr([method |-> method, url |-> url, body |-> body, contentType |-> ""]),
        err |-> Nil]

\* What Send returns ([]byte, error) and what Health returns (bool, error).
SendReturn(data, err) == [data |-> data, ok |-> FALSE, err |-> err]

HealthReturn(ok, err) == [data |-> Nil, ok |-> ok, err |-> err]

\* Mutant of errorMessage: the body's error string is used even when empty.
errorMessage_NoFallback(status, data) ==
  LET errResp == jsonUnmarshal(data)
  IN  IF ~errResp.failed THEN errResp.Error ELSE "HTTP " \o ToString(status)

\* The Message of the ServerError made from a response.
errorMessage(status, data) ==
  LET errResp == jsonUnmarshal(data)
  IN  IF ~errResp.failed /\ errResp.Error # "" THEN errResp.Error
      ELSE "HTTP " \o ToString(status)

\* Mutant of respond: a body with an error string is an error whatever the status.
respond_ErrorFieldFirst(status, data) ==
  IF status # StatusOK \/ jsonUnmarshal(data).Error # ""
  THEN SendReturn(Nil, Ptr(ServerError(status, errorMessage(status, data))))
  ELSE SendReturn(Ptr(data), Nil)

\* The end of Send, once the body was read: the status decides.
respond(status, data) ==
  IF status # StatusOK
  THEN SendReturn(Nil, Ptr(ServerError(status, errorMessage(status, data))))
  ELSE SendReturn(Ptr(data), Nil)

\* The calls that have not started, are in the transport, or have returned.
CallIds == DOMAIN sends

Step(id, call) ==
  /\ sends' = [sends EXCEPT ![id] = call]
  /\ UNCHANGED <<builderVars, clientVars, worldVars>>

Return(call, ret) == [call EXCEPT !.pc = "done", !.ret = Ptr(ret)]

\* The calls are numbered in the order in which they start.
NextToStart(id) ==
  /\ sends[id].pc = "idle"
  /\ \A other \in 1..(id - 1) : sends[other].pc # "idle"

\* Send up to the call of httpClient.Do: the payload is built and marshalled,
\* the POST request to baseURL + "/render" is made and its header set.
SendBegin(id) ==
  /\ NextToStart(id)
  /\ LET call == [sends[id] EXCEPT !.kind = "Send"]
         m    == jsonMarshal(buildPayload(r))
         q    == NewRequestWithContext("POST", RenderEndpoint(Deref(client)), m.body)
     IN  IF m.err # Nil
         THEN Step(id, Return(call,
                SendReturn(Nil, Ptr(Errorf("forge: marshal error", Deref(m.err))))))
         ELSE IF q.err # Nil
         THEN Step(id, Return(call,
                SendReturn(Nil, Ptr(Errorf("forge: request error", Deref(q.err))))))
         ELSE Step(id, [call EXCEPT
                !.pc = "do",
                !.request = Ptr([Deref(q.req) EXCEPT !.contentType = "application/json"])])

\* What httpClient.Do gives: an error (the context's, once it is done), or a
\* response whose body is still to be read.
Exchange(call) == [call EXCEPT !.exchanges = @ + 1]

TransportErrors(call) ==
  IF call.ctxDone THEN {ErrDoCanceled} ELSE {ErrConnectionRefused}

\* Mutant of SendDo: after a transport error the request is issued once more.
SendDo_RetryOnce(id) ==
  /\ sends[id].pc = "do"
  /\ sends[id].kind = "Send"
  /\ \/ \E err \in TransportErrors(sends[id]) :
          IF sends[id].exchanges = 0
          THEN Step(id, Exchange(sends[id]))
          ELSE Step(id, Return([Exchange(sends[id]) EXCEPT !.transportErr = Ptr(err)],
                          SendReturn(Nil, Ptr(ConnectionError(err)))))
     \/ /\ ~sends[id].ctxDone
        /\ \E resp \in server :
             Step(id, [Exchange(sends[id]) EXCEPT !.pc = "read", !.resp = Ptr(resp)])

\* Send at httpClient.Do(req).
SendDo(id) ==
  /\ sends[id].pc = "do"
  /\ sends[id].kind = "Send"
  /\ \/ \E err \in TransportErrors(sends[id]) :
          Step(id, Return([Exchange(sends[id]) EXCEPT !.transportErr = Ptr(err)],
                     SendReturn(Nil, Ptr(ConnectionError(err)))))
     \/ /\ ~sends[id].ctxDone
        /\ \E resp \in server :
             Step(id, [Exchange(sends[id]) EXCEPT !.pc = "read", !.resp = Ptr(resp)])

\* The errors io.ReadAll(resp.Body) can give after the headers arrived.
ReadErrors(call) ==
  IF call.ctxDone THEN {ErrReadCanceled} ELSE {ErrUnexpectedEOF}

\* Mutant of SendRead: the body is closed only after it was read to the end.
SendRead_NoCloseOnReadError(id) ==
  /\ sends[id].pc = "read"
  /\ LET call == [sends[id] EXCEPT !.closed = @ + 1]
         resp == Deref(sends[id].resp)
     IN  \/ \E err \in ReadErrors(call) :
              Step(id, Return([sends[id] EXCEPT !.readErr = Ptr(err)],
                         SendReturn(Nil, Ptr(Errorf("forge: read body", err)))))
         \/ Step(id, Return(call, respond(resp.StatusCode, resp.Body)))

\* Mutant of SendRead: the response is kept in a place the calls share, so a
\* call classifies the response of the first call that got one.
SendRead_SharedResponse(id) ==
  /\ sends[id].pc = "read"
  /\ LET call  == [sends[id] EXCEPT !.closed = @ + 1]
         first == CHOOSE j \in CallIds :
                    /\ sends[j].resp # Nil
                    /\ \A k \in CallIds : sends[k].resp # Nil => j <= k
         resp  == Deref(sends[first].resp)
     IN  \/ \E err \in ReadErrors(call) :
              Step(id, Return([call EXCEPT !.readErr = Ptr(err)],
                         SendReturn(Nil, Ptr(Errorf("forge: read body", err)))))
         \/ Step(id, Return(call, respond(resp.StatusCode, resp.Body)))

\* Send from io.ReadAll(resp.Body) to its return; the deferred Close runs.
SendRead(id) ==
  /\ sends[id].pc = "read"
  /\ LET call == [sends[id] EXCEPT !.closed = @ + 1]
         resp == Deref(sends[id].resp)
     IN  \/ \E err \in ReadErrors(call) :
              Step(id, Return([call EXCEPT !.readErr = Ptr(err)],
                         SendReturn(Nil, Ptr(Errorf("forge: read body", err)))))
         \/ Step(id, Return(call, respond(resp.StatusCode, resp.Body)))

\* Health up to the call of httpClient.Do: the GET request to baseURL + "/health".
HealthBegin(id) ==
  /\ NextToStart(id)
  /\ LET call == [sends[id] EXCEPT !.kind = "Health"]
         q    == NewRequestWithContext("GET", HealthEndpoint(Deref(client)), Nil)
     IN  IF q.err # Nil
         THEN Step(id, Return(call, HealthReturn(FALSE, q.err)))
         ELSE Step(id, [call EXCEPT !.pc = "do", !.request = q.req])

\* Health from httpClient.Do(req) to its return; the body is closed unread.
HealthDo(id) ==
  /\ sends[id].pc = "do"
  /\ sends[id].kind = "Health"
  /\ \/ \E err \in TransportErrors(sends[id]) :
          Step(id, Return([Exchange(sends[id]) EXCEPT !.transportErr = Ptr(err)],
                     HealthReturn(FALSE, Ptr(ConnectionError(err)))))
     \/ /\ ~sends[id].ctxDone
        /\ \E resp \in server :
             Step(id, Return([Exchange(sends[id]) EXCEPT !.resp = Ptr(resp), !.closed = @ + 1],
                        HealthReturn(resp.StatusCode = StatusOK, Nil)))

\* The caller's context is cancelled or its deadline passes while the call runs.
Cancel(id) ==
  /\ sends[id].pc \in {"do", "read"} \/ NextToStart(id)
  /\ ~sends[id].ctxDone
  /\ Step(id, [sends[id] EXCEPT !.ctxDone = TRUE])

\* The Clients and the requests of the behaviours of Send and Health: a base
\* address with and without a trailing slash and one with a control byte; a
\* request as the factory made it and one after Density(math.NaN()).
SendBases == {<<"h">>, <<"h", "/">>, <<"h", "DEL">>}

SendInit ==
  /\ \E baseURL \in SendBases : ClientMade(baseURL, <<>>)
  /\ sends = NoCalls
  /\ server = Responses
  /\ sibling = Nil
  /\ factory = [name |-> "RenderHTML", arg |-> ""]
  /\ payload = Nil
  /\ paletteCalls = <<>>
  /\ barcodeCalls = <<>>
  /\ attachCalls = <<>>
  /\ \/ /\ r = RenderHTML(TheClient, "")
        /\ calls = 0
        /\ args = EmptyMap
     \/ /\ r = [RenderHTML(TheClient, "") EXCEPT !.density = Ptr(NaN)]
        /\ calls = 1
        /\ args = Put(EmptyMap, "Density", NaN)

SendNext ==
  \E id \in CallIds :
    \/ SendBegin(id)
    \/ SendDo(id)
    \/ SendRead(id)
    \/ HealthBegin(id)
    \/ HealthDo(id)
    \/ Cancel(id)

SendSpec == SendInit /\ [][SendNext]_vars

\* ------------------------------------------------------- concurrent calls
\* Several calls of Send and Health run at the same time on one request that
\* is configured before the first of them starts: the request as the factory
\* made it, or after Width(1280).  The server answers with a document or
\* with an error.
ConcurrentResponses ==
  {Response(200, "%PDF-1.7"), Response(422, "{\"error\":\"bad paper size\"}")}

ConcurrentInit ==
  /\ ClientMade(DefaultBase, <<>>)
  /\ sends = [id \in 1..MaxConcurrent |-> IdleCall]
  /\ server = ConcurrentResponses
  /\ sibling = Nil
  /\ factory = [name |-> "RenderHTML", arg |-> ""]
  /\ payload = Nil
  /\ paletteCalls = <<>>
  /\ barcodeCalls = <<>>
  /\ attachCalls = <<>>
  /\ \/ /\ r = RenderHTML(TheClient, "")
        /\ calls = 0
        /\ args = EmptyMap
     \/ /\ r = [RenderHTML(TheClient, "") EXCEPT !.width = Ptr(1280)]
        /\ calls = 1
        /\ args = Put(EmptyMap, "Width", 1280)

ConcurrentSpec == ConcurrentInit /\ [][SendNext]_vars

\* ------------------------------------------------------ caller's memory
\* CustomPalette stores the slice it is given and PdfBarcodeWith the struct
\* with its pointers, so the request and the caller share the array behind
\* the slice and the values behind the pointers.  A write of the caller
\* through its own slice or pointer is a change of what the request reads.
CallerColor == "#ff0000"

CallerX == 99

\* colors[0] = "#ff0000", colors being the slice passed to CustomPalette.
CallerWritesColor ==
  /\ r.palette # Nil
  /\ Deref(r.palette).dyn = "[]string"
  /\ Len(Deref(r.palette).elems) > 0
  /\ Deref(r.palette).elems[1] # CallerColor
  /\ r' = [r EXCEPT !.palette = Ptr([Deref(r.palette) EXCEPT !.elems[1] = CallerColor])]
  /\ payload' = Nil
  /\ UNCHANGED <<calls, args, factory, paletteCalls, barcodeCalls, attachCalls>>
  /\ UNCHANGED <<clientVars, sends, worldVars>>

\* *config.X = 99, config being a struct passed to PdfBarcodeWith.
CallerWritesX ==
  /\ \E i \in 1..Len(r.pdfBarcodes) :
       /\ r.pdfBarcodes[i].X # Nil
       /\ r.pdfBarcodes[i].X # Ptr(CallerX)
       /\ r' = [r EXCEPT !.pdfBarcodes[i].X = Ptr(CallerX)]
  /\ payload' = Nil
  /\ UNCHANGED <<calls, args, factory, paletteCalls, barcodeCalls, attachCalls>>
  /\ UNCHANGED <<clientVars, sends, worldVars>>

\* The setters that keep a reference into the caller's memory, the
\* finalization and the caller's writes.
AliasNext ==
  \/ CustomPalette
  \/ PdfBarcodeWith
  \/ BuildPayload
  \/ CallerWritesColor
  \/ CallerWritesX

AliasSpec == Init /\ [][AliasNext]_vars

\* ------------------------------------------------- a Client in use
\* One Client, the request r made from it, and a second request made from it
\* at some point.  Setters are called on r (one setter of the plain field, one
\* of a pointer field and one of a list), r is finalized, and Send and
\* Health calls run, in any interleaving.
Sibling(req, name, arg) == Ptr([req |-> req, factory |-> [name |-> name, arg |-> arg]])

\* c.RenderHTML(html) for the second request.
SiblingRenderHTML ==
  /\ sibling = Nil
  /\ \E html \in HtmlArgs :
       sibling' = Sibling(RenderHTML(TheClient, html), "RenderHTML", html)
  /\ UNCHANGED <<builderVars, clientVars, sends, server>>

\* c.RenderURL(url) for the second request.
SiblingRenderURL ==
  /\ sibling = Nil
  /\ \E url \in UrlArgs :
       sibling' = Sibling(RenderURL(TheClient, url), "RenderURL", url)
  /\ UNCHANGED <<builderVars, clientVars, sends, server>>

SessionInit ==
  /\ ClientMade(DefaultBase, <<>>)
  /\ sends = NoCalls
  /\ server = ConcurrentResponses
  /\ sibling = Nil
  /\ r = RenderHTML(TheClient, "")
  /\ factory = [name |-> "RenderHTML", arg |-> ""]
  /\ payload = Nil
  /\ calls = 0
  /\ args = EmptyMap
  /\ paletteCalls = <<>>
  /\ barcodeCalls = <<>>
  /\ attachCalls = <<>>

\* A step of a Send or Health call of the session; no context is cancelled.
SessionCall ==
  \E id \in CallIds :
    \/ SendBegin(id)
    \/ SendDo(id)
    \/ SendRead(id)
    \/ HealthBegin(id)
    \/ HealthDo(id)

SessionNext ==
  \/ SiblingRenderHTML
  \/ SiblingRenderURL
  \/ Format
  \/ Timeout
  \/ PdfBarcode
  \/ BuildPayload
  \/ SessionCall

SessionSpec == SessionInit /\ [][SessionNext]_vars

\* --------------------------------------------------------- specification
Next ==
  \/ Format
  \/ Width
  \/ Height
  \/ Paper
  \/ Orientation
  \/ Margins
  \/ Flow
  \/ Density
  \/ Background
  \/ Timeout
  \/ Colors
  \/ Palette
  \/ CustomPalette
  \/ Dither
  \/ PdfTitle
  \/ PdfAuthor
  \/ PdfSubject
  \/ PdfKeywords
  \/ PdfCreator
  \/ PdfBookmarks
  \/ PdfPageNumbers
  \/ PdfWatermarkText
  \/ PdfWatermarkImage
  \/ PdfWatermarkOpacity
  \/ PdfWatermarkRotation
  \/ PdfWatermarkColor
  \/ PdfWatermarkFontSize
  \/ PdfWatermarkScale
  \/ PdfWatermarkLayer
  \/ PdfStandard
  \/ PdfAttach
  \/ PdfWatermarkPages
  \/ PdfBarcode
  \/ PdfBarcodeWith
  \/ PdfMode
  \/ PdfSignCertificate
  \/ PdfSignPassword
  \/ PdfSignName
  \/ PdfSignReason
  \/ PdfSignLocation
  \/ PdfSignTimestampUrl
  \/ PdfUserPassword
  \/ PdfOwnerPassword
  \/ PdfPermissions
  \/ PdfAccessibility
  \/ PdfLinearize
  \/ BuildPayload

Spec == Init /\ [][Next]_vars

\* ----------------------------------------------------- wire names (spec.md)
\* The payload key each single-value setter writes, as the data model of the
\* specification names it.
WireKey ==
  [Format |-> "format", Width |-> "width", Height |-> "height", Paper |-> "paper",
   Orientation |-> "orientation", Margins |-> "margins", Flow |-> "flow",
   Density |-> "density", Background |-> "background", Timeout |-> "timeout",
   Colors |-> "colors", Palette |-> "palette", CustomPalette |-> "palette",
   Dither |-> "dither",
   PdfTitle |-> "title", PdfAuthor |-> "author", PdfSubject |-> "subject",
   PdfKeywords |-> "keywords", PdfCreator |-> "creator",
   PdfBookmarks |-> "bookmarks", PdfPageNumbers |-> "page_numbers",
   PdfStandard |-> "standard", PdfMode |-> "mode",
   PdfAccessibility |-> "accessibility", PdfLinearize |-> "linearize",
   PdfWatermarkText |-> "text", PdfWatermarkImage |-> "image_data",
   PdfWatermarkOpacity |-> "opacity", PdfWatermarkRotation |-> "rotation",
   PdfWatermarkColor |-> "color", PdfWatermarkFontSize |-> "font_size",
   PdfWatermarkScale |-> "scale", PdfWatermarkLayer |-> "layer",
   PdfWatermarkPages |-> "pages",
   PdfSignCertificate |-> "certificate_data", PdfSignPassword |-> "password",
   PdfSignName |-> "signer_name", PdfSignReason |-> "reason",
   PdfSignLocation |-> "location", PdfSignTimestampUrl |-> "timestamp_url",
   PdfUserPassword |-> "user_password", PdfOwnerPassword |-> "owner_password",
   PdfPermissions |-> "permissions"]

LayoutSetters ==
  {"Width", "Height", "Paper", "Orientation", "Margins", "Flow", "Density",
   "Background", "Timeout"}

QuantizeSetters == {"Colors", "Palette", "CustomPalette", "Dither"}

\* Setters of the members that sit directly in the pdf object.
PdfMemberSetters ==
  {"PdfTitle", "PdfAuthor", "PdfSubject", "PdfKeywords", "PdfCreator",
   "PdfBookmarks", "PdfPageNumbers", "PdfStandard", "PdfMode",
   "PdfAccessibility", "PdfLinearize"}

WatermarkSetters ==
  {"PdfWatermarkText", "PdfWatermarkImage", "PdfWatermarkOpacity",
   "PdfWatermarkRotation", "PdfWatermarkColor", "PdfWatermarkFontSize",
   "PdfWatermarkScale", "PdfWatermarkLayer", "PdfWatermarkPages"}

SignatureSetters ==
  {"PdfSignCertificate", "PdfSignPassword", "PdfSignName", "PdfSignReason",
   "PdfSignLocation", "PdfSignTimestampUrl"}

EncryptionSetters == {"PdfUserPassword", "PdfOwnerPassword", "PdfPermissions"}

\* The setters of a nested object of the pdf object.
SubGroupSetters ==
  [watermark |-> WatermarkSetters, signature |-> SignatureSetters,
   encryption |-> EncryptionSetters]

SubGroups == {"watermark", "signature", "encryption"}

\* The keys of the setters among S that were called at least once.
Touched(S) == {WireKey[s] : s \in S \cap DOMAIN args}

\* The pdf members some call of the history set.
PdfTouched ==
  Touched(PdfMemberSetters)
    \cup {g \in SubGroups : Touched(SubGroupSetters[g]) # {}}
    \cup (IF attachCalls # <<>> THEN {"embedded_files"} ELSE {})
    \cup (IF barcodeCalls # <<>> THEN {"barcodes"} ELSE {})

\* ------------------------------------------------------------------ claims
\* C1: the payload has the key "quantize" if and only if Colors, Palette,
\* CustomPalette or Dither was called, and the quantize object then holds
\* exactly the keys among colors, palette, dither whose setter was called.
C1_QuantizeIffTouched ==
  payload # Nil =>
    LET p == Deref(payload) IN
    /\ ("quantize" \in DOMAIN p) <=> (Touched(QuantizeSetters) # {})
    /\ "quantize" \in DOMAIN p => DOMAIN p["quantize"] = Touched(QuantizeSetters)

\* C1 witness: a payload finalized after only a palette setter and Dither
\* were called carries a quantize object.
C1_Witness ==
  /\ payload # Nil
  /\ Touched(QuantizeSetters) = {"palette", "dither"}
  /\ "quantize" \in DOMAIN Deref(payload)

\* C2: the payload has the key "pdf" if and only if a pdf-domain setter was
\* called, and the pdf object then holds exactly the keys of the members set.
C2_PdfIffTouched ==
  payload # Nil =>
    LET p == Deref(payload) IN
    /\ ("pdf" \in DOMAIN p) <=> (PdfTouched # {})
    /\ "pdf" \in DOMAIN p => DOMAIN p["pdf"] = PdfTouched

\* C2 witness: a payload finalized after a barcode call and a watermark
\* setter carries a pdf object.
C2_Witness ==
  /\ payload # Nil
  /\ PdfTouched = {"barcodes", "watermark"}
  /\ "pdf" \in DOMAIN Deref(payload)

\* C3: inside the pdf object each of watermark, signature and encryption is
\* present if and only if a setter of that sub-group was called, and holds
\* exactly the members whose setter was called.
C3_SubGroupIffTouched ==
  payload # Nil =>
    LET p == Deref(payload) IN
    \A g \in SubGroups :
      LET present == "pdf" \in DOMAIN p /\ g \in DOMAIN p["pdf"] IN
      /\ present <=> (Touched(SubGroupSetters[g]) # {})
      /\ present => DOMAIN p["pdf"][g] = Touched(SubGroupSetters[g])

\* C3 witness: a payload finalized after setters of two different sub-groups
\* were called, with the third sub-group absent.
C3_Witness ==
  /\ payload # Nil
  /\ Touched(SignatureSetters) # {}
  /\ Touched(EncryptionSetters) # {}
  /\ "pdf" \in DOMAIN Deref(payload)
  /\ "signature" \in DOMAIN Deref(payload)["pdf"]
  /\ "watermark" \notin DOMAIN Deref(payload)["pdf"]

\* The zero value of the argument type of each single-value setter.
ZeroArg(s) ==
  CASE s \in {"Width", "Height", "Timeout", "Colors", "Density",
              "PdfWatermarkOpacity", "PdfWatermarkRotation",
              "PdfWatermarkFontSize", "PdfWatermarkScale"} -> 0
    [] s \in {"PdfBookmarks", "PdfPageNumbers", "PdfLinearize"} -> FALSE
    [] s = "CustomPalette" -> NilSlice
    [] OTHER -> ""

\* The object of the payload p that holds the field of setter s, or Nil when
\* that object is absent: p itself, or the quantize, pdf or nested pdf object.
EnclosingObject(p, s) ==
  CASE s \in LayoutSetters \cup {"Format"} -> Ptr(p)
    [] s \in QuantizeSetters ->
         IF "quantize" \in DOMAIN p THEN Ptr(p["quantize"]) ELSE Nil
    [] s \in PdfMemberSetters ->
         IF "pdf" \in DOMAIN p THEN Ptr(p["pdf"]) ELSE Nil
    [] OTHER ->
         LET g == CHOOSE x \in SubGroups : s \in SubGroupSetters[x] IN
         IF "pdf" \in DOMAIN p /\ g \in DOMAIN p["pdf"]
         THEN Ptr(p["pdf"][g]) ELSE Nil

\* The field of setter s is in the payload p, in its enclosing group, with
\* the value v.
Carries(p, s, v) ==
  /\ EnclosingObject(p, s) # Nil
  /\ WireKey[s] \in DOMAIN Deref(EnclosingObject(p, s))
  /\ Deref(EnclosingObject(p, s))[WireKey[s]] = v

\* C4: a setter last called with the zero value of its type (false, 0, "")
\* still makes its field appear in the payload with that exact value, inside
\* a present enclosing group.
C4_ZeroValueIsSet ==
  payload # Nil =>
    \A s \in (DOMAIN args) \ {"Palette", "CustomPalette"} :
      args[s] = ZeroArg(s) => Carries(Deref(payload), s, args[s])

\* C5: the key format is always present; it holds the argument of the last
\* Format call when Format was called, and "pdf" when it never was.
C5_FormatLastOrDefault ==
  payload # Nil =>
    LET p == Deref(payload) IN
    /\ "format" \in DOMAIN p
    /\ "Format" \in DOMAIN args => p["format"] = args["Format"]
    /\ "Format" \notin DOMAIN args => p["format"] = "pdf"

\* The payload key of the source a factory sets.
SourceKey == [RenderHTML |-> "html", RenderURL |-> "url"]

\* C6: finalizing a request on which no setter was called gives exactly two
\* keys: the source key of the factory with the factory's argument, and
\* format = "pdf".
C6_MinimalPayload ==
  (payload # Nil /\ calls = 0) =>
    LET p == Deref(payload) IN
    /\ DOMAIN p = {SourceKey[factory.name], "format"}
    /\ p[SourceKey[factory.name]] = factory.arg
    /\ p["format"] = "pdf"

\* C6 witness: a request made by RenderHTML with the empty string is
\* finalized before any setter call.
C6_Witness ==
  /\ payload # Nil
  /\ calls = 0
  /\ factory.name = "RenderHTML"
  /\ factory.arg = ""

\* C7: quantize.palette is the preset string when the last call among Palette
\* and CustomPalette was Palette, and the list of colors when it was
\* CustomPalette.
C7_PaletteLastWriteWins ==
  (payload # Nil /\ paletteCalls # <<>>) =>
    LET p == Deref(payload)
        last == paletteCalls[Len(paletteCalls)]
    IN  /\ "quantize" \in DOMAIN p
        /\ "palette" \in DOMAIN p["quantize"]
        /\ LET v == p["quantize"]["palette"] IN
           IF last = "Palette"
           THEN v.dyn = "string" /\ v.str = args["Palette"]
           ELSE /\ v.dyn = "[]string"
                /\ v.isNil = args["CustomPalette"].isNil
                /\ v.elems = args["CustomPalette"].elems

\* C7 witness: Palette was called and then CustomPalette, and the payload was
\* finalized.
C7_Witness ==
  /\ payload # Nil
  /\ paletteCalls = <<"Palette", "CustomPalette">>
  /\ args["CustomPalette"].elems # <<>>

\* The key of each optional member of a barcode entry.
BarcodeKey ==
  [X |-> "x", Y |-> "y", Width |-> "width", Height |-> "height",
   Anchor |-> "anchor", Foreground |-> "foreground",
   Background |-> "background", DrawBg |-> "draw_background",
   Pages |-> "pages"]

\* C8: pdf.barcodes has one entry per PdfBarcode / PdfBarcodeWith call, in
\* call order; entry i carries type and data, and an optional key if and
\* only if the i-th call provided that member, with the value provided.
C8_BarcodesInCallOrder ==
  (payload # Nil /\ barcodeCalls # <<>>) =>
    LET p == Deref(payload) IN
    /\ "pdf" \in DOMAIN p
    /\ "barcodes" \in DOMAIN p["pdf"]
    /\ LET b == p["pdf"]["barcodes"] IN
       /\ DOMAIN b = 1..Len(barcodeCalls)
       /\ \A i \in 1..Len(barcodeCalls) :
            LET call == barcodeCalls[i] IN
            /\ DOMAIN b[i] =
                 {"type", "data"} \cup {BarcodeKey[m] : m \in DOMAIN call.provided}
            /\ b[i]["type"] = call.type
            /\ b[i]["data"] = call.data
            /\ \A m \in DOMAIN call.provided :
                 b[i][BarcodeKey[m]] = call.provided[m]

\* C8 witness: PdfBarcode and then PdfBarcodeWith with a member given as its
\* zero value were called and the payload was finalized.
C8_Witness ==
  /\ payload # Nil
  /\ Len(barcodeCalls) = 2
  /\ barcodeCalls[1].setter = "PdfBarcode"
  /\ barcodeCalls[2].setter = "PdfBarcodeWith"
  /\ "DrawBg" \in DOMAIN barcodeCalls[2].provided

\* The value a member of the file has after the options of a PdfAttach call:
\* the value of the last option that assigns it, "" when none does.
OptionValue(opts, member) ==
  LET idx == {i \in 1..Len(opts) : opts[i].member = member} IN
  IF idx = {} THEN ""
  ELSE opts[CHOOSE i \in idx : \A j \in idx : j <= i].value

\* The key of each optional member of an embedded file entry.
EmbeddedFileKey ==
  [MimeType |-> "mime_type", Description |-> "description",
   Relationship |-> "relationship"]

\* C9: pdf.embedded_files has one entry per PdfAttach call, in call order;
\* each entry carries path and data, and carries mime_type, description and
\* relationship exactly when that member of the entry is not empty.
C9_EmbeddedFilesInCallOrder ==
  (payload # Nil /\ attachCalls # <<>>) =>
    LET p == Deref(payload) IN
    /\ "pdf" \in DOMAIN p
    /\ "embedded_files" \in DOMAIN p["pdf"]
    /\ LET f == p["pdf"]["embedded_files"] IN
       /\ DOMAIN f = 1..Len(attachCalls)
       /\ \A i \in 1..Len(attachCalls) :
            LET call == attachCalls[i] IN
            /\ DOMAIN f[i] =
                 {"path", "data"}
                   \cup {EmbeddedFileKey[m] : m \in
                           {x \in DOMAIN EmbeddedFileKey :
                              OptionValue(call.opts, x) # ""}}
            /\ f[i]["path"] = call.path
            /\ f[i]["data"] = call.data
            /\ \A m \in DOMAIN EmbeddedFileKey :
                 OptionValue(call.opts, m) # "" =>
                   f[i][EmbeddedFileKey[m]] = OptionValue(call.opts, m)

\* C9 witness: two PdfAttach calls, the first with a mime type reset to "",
\* the second with a description, and the payload was finalized.
C9_Witness ==
  /\ payload # Nil
  /\ Len(attachCalls) = 2
  /\ Len(attachCalls[1].opts) = 2
  /\ OptionValue(attachCalls[1].opts, "MimeType") = ""
  /\ OptionValue(attachCalls[2].opts, "Description") # ""

\* C10: each flat layout key is at the top level of the payload exactly when
\* its setter was called, with the value of the last call, is never inside
\* quantize or pdf, and layout setters alone make neither group appear.
C10_LayoutFlat ==
  payload # Nil =>
    LET p == Deref(payload) IN
    /\ \A s \in LayoutSetters :
         /\ (WireKey[s] \in DOMAIN p) <=> (s \in DOMAIN args)
         /\ s \in DOMAIN args => p[WireKey[s]] = args[s]
         /\ "quantize" \in DOMAIN p => WireKey[s] \notin DOMAIN p["quantize"]
         /\ "pdf" \in DOMAIN p => WireKey[s] \notin DOMAIN p["pdf"]
    /\ (/\ DOMAIN args \subseteq LayoutSetters \cup {"Format"}
        /\ attachCalls = <<>>
        /\ barcodeCalls = <<>>)
         => ("quantize" \notin DOMAIN p /\ "pdf" \notin DOMAIN p)

\* C10 witness: two layout setters, one with the zero value, were called and
\* the payload was finalized.
C10_Witness ==
  /\ payload # Nil
  /\ DOMAIN args = {"Timeout", "Density"}
  /\ args["Timeout"] = 0
  /\ args["Density"] # 0

\* C11: whatever setters were called, the payload holds exactly one of the
\* keys html and url: the one of the factory that made the request.
C11_ExactlyOneSource ==
  payload # Nil =>
    {"html", "url"} \cap DOMAIN Deref(payload) = {SourceKey[factory.name]}

\* C11 witness: a request made by RenderHTML is finalized after a setter call
\* and carries html.
C11_Witness ==
  /\ payload # Nil
  /\ calls > 0
  /\ factory.name = "RenderHTML"
  /\ "html" \in DOMAIN Deref(payload)

\* n slashes.
Slashes(n) == [i \in 1..n |-> "/"]

\* a and b differ only in the number of trailing slashes.
SameUpToTrailingSlashes(a, b) ==
  \E k \in 0..Len(a) :
    /\ k <= Len(b)
    /\ SubSeq(a, 1, k) = SubSeq(b, 1, k)
    /\ SubSeq(a, k + 1, Len(a)) = Slashes(Len(a) - k)
    /\ SubSeq(b, k + 1, Len(b)) = Slashes(Len(b) - k)

\* C20: the base stored by NewClient is the argument without its trailing
\* slashes and does not end with '/'; every base address that differs from the
\* argument only in trailing slashes gives the same stored base and the same
\* /render and /health addresses; normalizing the stored base changes nothing.
C20_TrailingSlashesStripped ==
  client # Nil =>
    LET c    == Deref(client)
        base == Deref(newClientArgs).baseURL
    IN  /\ c.baseURL = <<>> \/ c.baseURL[Len(c.baseURL)] # "/"
        /\ base = c.baseURL \o Slashes(Len(base) - Len(c.baseURL))
        /\ \A other \in BaseURLs :
             SameUpToTrailingSlashes(other, base) =>
               LET c2 == NewClient(other, <<>>, CallerHeap).c
               IN  /\ c2.baseURL = c.baseURL
                   /\ RenderEndpoint(c2) = RenderEndpoint(c)
                   /\ HealthEndpoint(c2) = HealthEndpoint(c)
        /\ NewClient(c.baseURL, <<>>, CallerHeap).c.baseURL = c.baseURL

\* C20 witness: a base address with two trailing slashes was given and the
\* Client stores it without them.
C20_Witness ==
  /\ client # Nil
  /\ Deref(newClientArgs).baseURL = <<"h", "/", "/">>
  /\ Deref(client).baseURL = <<"h">>

\* The Send calls that have returned, and what each returned.
ReturnedSends == {id \in CallIds : sends[id].kind = "Send" /\ sends[id].pc = "done"}

Returned(id) == Deref(sends[id].ret)

\* The transport delivered a response to the call and its body was read to the end.
ResponseRead(id) == sends[id].resp # Nil /\ sends[id].readErr = Nil

IsServerError(err) == err # Nil /\ Deref(err).type = "*forge.ServerError"

IsConnectionError(err) == err # Nil /\ Deref(err).type = "*forge.ConnectionError"

\* C12: a Send whose response has status 200 and whose body was read to the
\* end returns the bytes of the body and a nil error.
C12_SuccessReturnsBody ==
  \A id \in ReturnedSends :
    (ResponseRead(id) /\ Deref(sends[id].resp).StatusCode = 200) =>
      /\ Returned(id).data = Ptr(Deref(sends[id].resp).Body)
      /\ Returned(id).err = Nil

\* C12 witness: a 200 response whose body looks like an error document was
\* read and its bytes were returned.
C12_Witness ==
  \E id \in ReturnedSends :
    /\ ResponseRead(id)
    /\ Deref(sends[id].resp) = Response(200, "{\"error\":\"bad paper size\"}")
    /\ Returned(id).data = Ptr("{\"error\":\"bad paper size\"}")

\* "HTTP <status>" for the statuses of the responses.
HttpStatusText(status) ==
  CASE status = 201 -> "HTTP 201"
    [] status = 422 -> "HTTP 422"
    [] status = 500 -> "HTTP 500"
    [] OTHER -> ""

\* The error string of a body that is a JSON object with a non-empty string
\* member named "error"; "" for every other body.
ErrorStringExact(body) ==
  IF body = "{\"error\":\"bad paper size\"}" THEN "bad paper size" ELSE ""

\* The same, the member's name compared without regard to letter case.
ErrorStringAnyCase(body) ==
  IF body = "{\"Error\":\"boom\"}" THEN "boom" ELSE ErrorStringExact(body)

ExpectedServerError(status, text) ==
  Ptr(ServerError(status, IF text # "" THEN text ELSE HttpStatusText(status)))

\* C13 as stated: for every response with a status other than 200, Send
\* returns no bytes and a ServerError with the status and, as Message, the
\* body's "error" string, or "HTTP <status>" when there is none.
C13_NonOKIsServerError ==
  \A id \in ReturnedSends :
    (sends[id].resp # Nil /\ Deref(sends[id].resp).StatusCode # 200) =>
      LET resp == Deref(sends[id].resp)
      IN  /\ Returned(id).data = Nil
          /\ Returned(id).err =
               ExpectedServerError(resp.StatusCode, ErrorStringExact(resp.Body))

\* C13 amended: the same for the responses whose body was read to the end,
\* the name of the error member being matched without regard to letter case.
C13_NonOKReadIsServerError ==
  \A id \in ReturnedSends :
    (ResponseRead(id) /\ Deref(sends[id].resp).StatusCode # 200) =>
      LET resp == Deref(sends[id].resp)
      IN  /\ Returned(id).data = Nil
          /\ Returned(id).err =
               ExpectedServerError(resp.StatusCode, ErrorStringAnyCase(resp.Body))

\* C13 witness: a 422 response with an unparsable body was read and Send
\* returned the ServerError with the synthesized message.
C13_Witness ==
  \E id \in ReturnedSends :
    /\ ResponseRead(id)
    /\ Deref(sends[id].resp) = Response(422, "<html>Bad Gateway</html>")
    /\ Returned(id).err = Ptr(ServerError(422, "HTTP 422"))

\* C14: a Send whose exchange failed in the transport before a response
\* returns nil bytes and a ConnectionError whose Cause, and Unwrap result, is
\* the transport's error; it is no ServerError.
C14_TransportFailureIsConnectionError ==
  \A id \in ReturnedSends :
    sends[id].transportErr # Nil =>
      /\ Returned(id).data = Nil
      /\ IsConnectionError(Returned(id).err)
      /\ ~IsServerError(Returned(id).err)
      /\ Deref(Returned(id).err).Cause = sends[id].transportErr
      /\ Unwrap(Deref(Returned(id).err)) = sends[id].transportErr

\* C14 witness: the connection was refused and Send has returned.
C14_Witness ==
  \E id \in ReturnedSends :
    /\ sends[id].transportErr = Ptr(ErrConnectionRefused)
    /\ sends[id].resp = Nil
    /\ Returned(id).err # Nil

\* C15: every non-nil error a Send returns is a ConnectionError or a ServerError.
C15_TwoKindsOfError ==
  \A id \in ReturnedSends :
    Returned(id).err # Nil =>
      IsConnectionError(Returned(id).err) \/ IsServerError(Returned(id).err)

\* The transport honoured the context of the call: the error it gave, from Do
\* or while the body was read, is the context's.
ContextFired(id) ==
  /\ sends[id].ctxDone
  /\ \/ sends[id].transportErr = Ptr(ErrDoCanceled)
     \/ sends[id].readErr = Ptr(ErrReadCanceled)

\* C16: a Send that the context's firing ended, before a response or while
\* the body was read, returns a ConnectionError.
C16_CancelIsConnectionError ==
  \A id \in ReturnedSends :
    ContextFired(id) => IsConnectionError(Returned(id).err)

\* The Health calls that have returned.
ReturnedHealths == {id \in CallIds : sends[id].kind = "Health" /\ sends[id].pc = "done"}

\* C17: Health returns (true, nil) exactly when a response with status 200
\* was received, (false, nil) for a response with another status,
\* (false, ConnectionError) for a transport failure, and no error of
\* another kind.
C17_HealthContract ==
  \A id \in ReturnedHealths :
    LET ret == Returned(id)
        ok200 == sends[id].resp # Nil /\ Deref(sends[id].resp).StatusCode = 200
    IN  /\ (ret.ok /\ ret.err = Nil) <=> ok200
        /\ (sends[id].resp # Nil /\ ~ok200) => (~ret.ok /\ ret.err = Nil)
        /\ sends[id].transportErr # Nil => (~ret.ok /\ IsConnectionError(ret.err))
        /\ ret.err # Nil => IsConnectionError(ret.err)

\* C18: the StatusCode of every ServerError a Send returns lies in 400..599.
C18_ServerErrorIs4xx5xx ==
  \A id \in ReturnedSends :
    IsServerError(Returned(id).err) =>
      Deref(Returned(id).err).StatusCode \in 400..599

\* C19: no call of Send or Health issues more than one request, whatever the
\* outcome of the first, and a call that got an outcome from the transport
\* issued exactly one.
C19_AtMostOneExchange ==
  \A id \in CallIds :
    /\ sends[id].exchanges <= 1
    /\ (sends[id].transportErr # Nil \/ sends[id].resp # Nil) => sends[id].exchanges = 1

\* C19 witness: a call has returned whose only exchange failed in the
\* transport or was answered with status 500.
C19_Witness ==
  \E id \in CallIds :
    /\ sends[id].pc = "done"
    /\ sends[id].exchanges = 1
    /\ \/ sends[id].transportErr # Nil
       \/ sends[id].resp # Nil /\ Deref(sends[id].resp).StatusCode = 500

\* The field of RenderRequest each setter is about.
OwnField ==
  [Format |-> "format", Width |-> "width", Height |-> "height",
   Paper |-> "paper", Orientation |-> "orientation", Margins |-> "margins",
   Flow |-> "flow", Density |-> "density", Background |-> "background",
   Timeout |-> "timeout", Colors |-> "colors", Palette |-> "palette",
   CustomPalette |-> "palette", Dither |-> "dither", PdfTitle |-> "pdfTitle",
   PdfAuthor |-> "pdfAuthor", PdfSubject |-> "pdfSubject",
   PdfKeywords |-> "pdfKeywords", PdfCreator |-> "pdfCreator",
   PdfBookmarks |-> "pdfBookmarks", PdfPageNumbers |-> "pdfPageNumbers",
   PdfWatermarkText |-> "pdfWatermarkText",
   PdfWatermarkImage |-> "pdfWatermarkImage",
   PdfWatermarkOpacity |-> "pdfWatermarkOpacity",
   PdfWatermarkRotation |-> "pdfWatermarkRotation",
   PdfWatermarkColor |-> "pdfWatermarkColor",
   PdfWatermarkFontSize |-> "pdfWatermarkFontSize",
   PdfWatermarkScale |-> "pdfWatermarkScale",
   PdfWatermarkLayer |-> "pdfWatermarkLayer", PdfStandard |-> "pdfStandard",
   PdfAttach |-> "pdfEmbeddedFiles",
   PdfWatermarkPages |-> "pdfWatermarkPages", PdfBarcode |-> "pdfBarcodes",
   PdfBarcodeWith |-> "pdfBarcodes", PdfMode |-> "pdfMode",
   PdfSignCertificate |-> "pdfSignCertificate",
   PdfSignPassword |-> "pdfSignPassword", PdfSignName |-> "pdfSignName",
   PdfSignReason |-> "pdfSignReason", PdfSignLocation |-> "pdfSignLocation",
   PdfSignTimestampUrl |-> "pdfSignTimestampUrl",
   PdfUserPassword |-> "pdfUserPassword",
   PdfOwnerPassword |-> "pdfOwnerPassword",
   PdfPermissions |-> "pdfPermissions",
   PdfAccessibility |-> "pdfAccessibility", PdfLinearize |-> "pdfLinearize"]

ListFields == {"pdfEmbeddedFiles", "pdfBarcodes"}

\* The setters a step can be a call of, read off the histories: the setter
\* whose recorded argument is new or the one whose call was logged.  A call
\* that repeats the recorded argument of a single-value setter leaves none.
SettersOfStep ==
  {s \in DOMAIN args' : s \notin DOMAIN args \/ args'[s] # args[s]}
    \cup (IF paletteCalls' # paletteCalls THEN {paletteCalls'[Len(paletteCalls')]} ELSE {})
    \cup (IF barcodeCalls' # barcodeCalls
          THEN {barcodeCalls'[Len(barcodeCalls')].setter} ELSE {})
    \cup (IF attachCalls' # attachCalls THEN {"PdfAttach"} ELSE {})

\* Only the field own differs between r and r'; a list field grew by one
\* element at its end.
OnlyChanges(own) ==
  /\ \A f \in DOMAIN r \ {own} : r'[f] = r[f]
  /\ own \in ListFields =>
       /\ Len(r'[own]) = Len(r[own]) + 1
       /\ SubSeq(r'[own], 1, Len(r[own])) = r[own]

\* C22: a setter call changes, in the request it is called on, its own field
\* only (a list setter appends one element to its own list): every other
\* field, the source and the client binding stay as they were.
C22_SetterChangesOwnFieldOnly ==
  [][calls' = calls + 1 =>
       /\ DOMAIN r' = DOMAIN r
       /\ IF SettersOfStep = {} THEN r' = r
          ELSE \E s \in SettersOfStep : OnlyChanges(OwnField[s])]_vars

\* C22 witness: two setters were called and the field the first one set is
\* still there next to the second one's.
C22_Witness ==
  /\ calls = 2
  /\ r.width # Nil
  /\ Len(r.pdfBarcodes) = 1
  /\ r.client = TheClient

\* The setters of a single value kept behind a pointer.
PointerSetters ==
  DOMAIN OwnField \ {"Format", "Palette", "CustomPalette", "PdfAttach",
                     "PdfBarcode", "PdfBarcodeWith"}

\* The BarcodeConfig and the EmbeddedFile a logged call added.
LoggedBarcode(call) ==
  [m \in DOMAIN BarcodeConfig(call.type, call.data) |->
     IF m \in DOMAIN call.provided THEN Ptr(call.provided[m])
     ELSE BarcodeConfig(call.type, call.data)[m]]

LoggedFile(call) ==
  [Path |-> call.path, Data |-> call.data,
   MimeType |-> OptionValue(call.opts, "MimeType"),
   Description |-> OptionValue(call.opts, "Description"),
   Relationship |-> OptionValue(call.opts, "Relationship")]

\* The request as the histories alone determine it.  The histories keep, for
\* each single-value setter, its last argument, and the order of calls only
\* among the setters of the palette slot and among those of each list: they
\* do not tell in which order setters of different fields were called.
FromHistories ==
  [f \in DOMAIN r |->
     CASE f = "client" -> TheClient
       [] f = "html" -> IF factory.name = "RenderHTML" THEN Ptr(factory.arg) ELSE Nil
       [] f = "url" -> IF factory.name = "RenderURL" THEN Ptr(factory.arg) ELSE Nil
       [] f = "format" -> IF "Format" \in DOMAIN args THEN args["Format"] ELSE ""
       [] f = "palette" ->
            IF paletteCalls = <<>> THEN Nil
            ELSE IF paletteCalls[Len(paletteCalls)] = "Palette"
            THEN Ptr(AnyString(args["Palette"]))
            ELSE Ptr(AnySlice(args["CustomPalette"]))
       [] f = "pdfBarcodes" ->
            [i \in 1..Len(barcodeCalls) |-> LoggedBarcode(barcodeCalls[i])]
       [] f = "pdfEmbeddedFiles" ->
            [i \in 1..Len(attachCalls) |-> LoggedFile(attachCalls[i])]
       [] OTHER ->
            LET s == CHOOSE s \in PointerSetters : OwnField[s] = f
            IN  IF s \in DOMAIN args THEN Ptr(args[s]) ELSE Nil]

\* C23: the finalized payload is the payload of the request the histories
\* determine, so two calls of setters of different fields give the same
\* payload in either order.
C23_OrderIndependent ==
  payload # Nil => Deref(payload) = buildPayload(FromHistories)

\* C23 witness: Colors and Dither were both called, in one order or the
\* other, and the request was finalized with both in the quantize object.
C23_Witness ==
  /\ payload # Nil
  /\ {"Colors", "Dither"} \subseteq DOMAIN args
  /\ "quantize" \in DOMAIN Deref(payload)
  /\ {"colors", "dither"} \subseteq DOMAIN Deref(payload).quantize

\* The value the payload holds for the last argument of setter s: the argument
\* itself, or the interface value that wraps it in the palette slot.
LastValue(s) ==
  CASE s = "Palette" -> AnyString(args[s])
    [] s = "CustomPalette" -> AnySlice(args[s])
    [] OTHER -> args[s]

\* The single-value setters whose last call still decides their field: all
\* that were called, a palette setter only when it was the last of the two.
DecidingSetters ==
  {s \in DOMAIN args :
     s \in {"Palette", "CustomPalette"} => paletteCalls[Len(paletteCalls)] = s}

\* C29: for every single-value setter that was called, once or several times,
\* the payload holds under the setter's key the argument of its last call.
C29_LastWriteWins ==
  payload # Nil =>
    \A s \in DecidingSetters : Carries(Deref(payload), s, LastValue(s))

\* The durations the WithTimeout options of a list give, in list order.
TimeoutsGiven(opts) == SelectSeq(opts, LAMBDA o : o.option = "WithTimeout")

\* The http.Client the caller handed over is as the caller made it.
CallerClientUntouched ==
  httpClients[CallerHTTPClient] = CallerHeap[CallerHTTPClient]

\* The last timeout given through WithTimeout is the Timeout of the
\* http.Client the Client uses.
TimeoutInEffect ==
  LET given == TimeoutsGiven(Deref(newClientArgs).opts)
  IN  given # <<>> =>
        httpClients[Deref(client).httpClient].Timeout = given[Len(given)].d

\* C28: NewClient leaves the caller's http.Client unmodified, and a timeout
\* given through WithTimeout is in effect on the Client it returns, in
\* whatever order WithTimeout and WithHTTPClient are passed.
C28_OptionsInAnyOrder ==
  client # Nil => (CallerClientUntouched /\ TimeoutInEffect)

\* C26: a call of Send or Health that got a response from the transport has
\* closed the body exactly once when it returns, whatever the status and
\* whether or not the body could be read, and not before; a call that got an
\* error from the transport, or none of the two, closes nothing.
C26_BodyClosedOnce ==
  \A id \in CallIds :
    /\ sends[id].closed =
         (IF sends[id].pc = "done" /\ sends[id].resp # Nil THEN 1 ELSE 0)
    /\ sends[id].transportErr # Nil => sends[id].resp = Nil

\* C26 witness: a Send whose body read failed has returned with the body closed.
C26_Witness ==
  \E id \in ReturnedSends :
    /\ sends[id].resp # Nil
    /\ sends[id].readErr # Nil
    /\ sends[id].closed = 1

\* C24: no Send fails because of the values the builder accumulated: when a
\* Send has returned, the payload of its request can be serialized and the
\* error returned, if any, is not the error of the serialization.
C24_BuildingInfallible ==
  \A id \in ReturnedSends :
    /\ jsonMarshal(buildPayload(r)).err = Nil
    /\ Returned(id).err # Nil =>
         Deref(Returned(id).err).Message # "forge: marshal error"

\* What a Send returns for a response it read to the end.
ExpectedReturn(resp) ==
  IF resp.StatusCode = 200
  THEN SendReturn(Ptr(resp.Body), Nil)
  ELSE SendReturn(Nil, ExpectedServerError(resp.StatusCode, ErrorStringAnyCase(resp.Body)))

\* C30: of the Send calls that run at the same time on one configured
\* request, each sends the payload of that request, each makes one exchange
\* at most, and each returns what its own response or its own transport
\* error calls for.
C30_ConcurrentSendsIndependent ==
  \A id \in CallIds :
    sends[id].kind = "Send" =>
      /\ sends[id].request # Nil =>
           Deref(sends[id].request).body = Ptr([json |-> buildPayload(r)])
      /\ sends[id].exchanges <= 1
      /\ (sends[id].pc = "done" /\ ResponseRead(id)) =>
           Returned(id) = ExpectedReturn(Deref(sends[id].resp))
      /\ (sends[id].pc = "done" /\ sends[id].transportErr # Nil) =>
           Returned(id) = SendReturn(Nil, Ptr(ConnectionError(Deref(sends[id].transportErr))))

\* C30 witness: the Send that started first is still reading the error
\* response it got while the Send that started after it has returned the
\* document of its own response.
C30_Witness ==
  /\ sends[1].kind = "Send"
  /\ sends[1].pc = "read"
  /\ Deref(sends[1].resp).StatusCode = 422
  /\ sends[2].kind = "Send"
  /\ sends[2].pc = "done"
  /\ Returned(2) = SendReturn(Ptr("%PDF-1.7"), Nil)

\* C27: the payload holds the colors as the slice held them when
\* CustomPalette was called, and for each barcode the optional values as they
\* were when PdfBarcodeWith was called, whatever the caller wrote to its
\* slice or through its pointers afterwards.
C27_ArgumentsCapturedByValue ==
  payload # Nil =>
    LET p == Deref(payload) IN
    /\ (paletteCalls # <<>> /\ paletteCalls[Len(paletteCalls)] = "CustomPalette") =>
         p["quantize"]["palette"].elems = args["CustomPalette"].elems
    /\ \A i \in 1..Len(barcodeCalls) :
         \A m \in DOMAIN barcodeCalls[i].provided :
           p["pdf"]["barcodes"][i][BarcodeKey[m]] = barcodeCalls[i].provided[m]


\* C25: finalizing is read-only and repeatable.  A step that is no setter
\* call (buildPayload, a step of Send or of Health) leaves the request as it
\* was; a finalization that follows another with no setter call in between
\* gives the same payload, whether it is made by buildPayload or by Send; and
\* a finalized payload is the payload of the request the setter calls alone
\* determine, whatever Send calls were made before.
C25_FinalizingReadOnly ==
  /\ [](payload # Nil => Deref(payload) = buildPayload(FromHistories))
  /\ [][ /\ calls' = calls => r' = r
         /\ (payload # Nil /\ payload' # Nil) => payload' = payload
         /\ \A id \in CallIds :
              (/\ payload # Nil
               /\ sends[id].pc = "idle"
               /\ sends'[id].kind = "Send"
               /\ sends'[id].request # Nil)
              => Deref(sends'[id].request).body = Ptr([json |-> Deref(payload)])
       ]_vars

\* A Send returned, and the payload finalized now is not the one it sent: a
\* setter was called since that Send finalized.
C25_Witness ==
  /\ sends[1].kind = "Send"
  /\ sends[1].pc = "done"
  /\ sends[1].request # Nil
  /\ payload # Nil
  /\ Deref(sends[1].request).body # Ptr([json |-> Deref(payload)])

\* The request a factory of the Client gives.
FreshRequest(f) ==
  IF f.name = "RenderHTML" THEN RenderHTML(TheClient, f.arg) ELSE RenderURL(TheClient, f.arg)

\* C21: the Client is as NewClient returned it, base address and HTTP client
\* alike, after any calls of RenderHTML, RenderURL, Health, setters and Send;
\* and the payload of a second request of the same Client is the payload it
\* had when it was created, whatever setters and Sends were called on the
\* first.
C21_ClientImmutableRequestsIndependent ==
  /\ LET made == NewClient(Deref(newClientArgs).baseURL, Deref(newClientArgs).opts, CallerHeap)
     IN  /\ client = Ptr(made.c)
         /\ httpClients = made.heap
  /\ sibling # Nil =>
       buildPayload(Deref(sibling).req) = buildPayload(FreshRequest(Deref(sibling).factory))

\* A second request exists, setters were called on the first, Timeout among
\* them, and a Send of the first has returned.
C21_Witness ==
  /\ sibling # Nil
  /\ calls = MaxCalls
  /\ r.timeout # Nil
  /\ \E id \in CallIds : sends[id].pc = "done" /\ sends[id].kind = "Send"

====
